---- MODULE Spec2Model ----
(***************************************************************************)
(* A model of the multipart transfer engine of ufile-rus3:                 *)
(*   - CombinatedMultipartPutApi::execute   (src/src/api/object_api.rs)    *)
(*   - DownloadFileOperation::execute       (src/src/api/download_file.rs) *)
(*   - MultipartFinishOperation::execute    (src/src/api/multipart_finish.rs,*)
(*                                           finish_multipart_api.rs)      *)
(*   - MultipartAbortOperation::execute     (src/src/api/multipart_abort.rs)*)
(*   - AuthorizationService::authorization  (src/src/auth.rs)              *)
(*   - the Init, part, Finish and Abort operations on one session          *)
(*                                          (src/src/api/multipart_*.rs)   *)
(*   - GenPrivateUrlOperation::execute      (src/src/api/util.rs)          *)
(*   - ObjectPool                           (src/src/util/pool.rs)         *)
(* Strings are sequences of one-character strings.  Part indexes are the   *)
(* 0-based loop indexes of the code; tasks[i + 1] is the task of index i.  *)
(***************************************************************************)
EXTENDS Integers, Sequences, FiniteSets, Bags, TLC

(***************************************************************************)
(* Bounds of the model.                                                    *)
(***************************************************************************)
MaxFileSize == 5
MaxBlkSize == 2
MaxChunks == 1
MaxDownloadConcurrency == 2
MaxPartNumber == 2
MaxPartStates == 3

(***************************************************************************)
(* Program constants.                                                      *)
(***************************************************************************)
DefaultUploadConcurrency == 4
UploadSemaphorePermits == 5
MULTIPART_SIZE == 4194304
DEFAULT_CONCURRENCY == 8
NoConcurrency == 0 - 1

VARIABLES
    concurrency,     \* CombinatedMultipartPutApi.concurrency
    file_size,       \* self.file.metadata()?.len()
    pc,              \* position of CombinatedMultipartPutApi::execute
    blk_size,        \* init_state.blk_size
    part_count,      \* part_count
    index,           \* loop variable of `for index in 0..part_count`
    remaining_size,  \* remaining_size
    tasks,           \* the spawned part tasks (tasks vec + their futures)
    permits,         \* available permits of the upload semaphore
    requests,        \* bag of HTTP requests sent so far
    parts_state,     \* parts_state handed to Finish
    result,          \* what execute returned
    security_token,  \* CombinatedMultipartPutApi.security_token
    \* DownloadFileOperation::execute
    d_concurrency,   \* config.concurrency (NoConcurrency for None)
    content_length,  \* config.head.content_length
    d_exists,        \* fs::try_exists(&dest_path)
    d_overwrite,     \* config.overwrite
    d_pc,            \* position of DownloadFileOperation::execute
    d_ranges,        \* ranges
    d_tasks,         \* the spawned range tasks (join_handles)
    d_permits,       \* available permits of semphore
    d_lock,          \* holder of the file mutex (0: free)
    d_next,          \* position of `for handle in join_handles`
    d_requests,      \* bag of GET requests sent so far
    d_file,          \* destination file: "absent", "old" or "created"
    d_written,       \* writes done on the created file: [off, obj, len]
    d_result,        \* what execute returned
    \* Finish operation on its own
    f_pc,            \* position of the Finish operation
    f_part_states,   \* part_states handed to the Finish operation
    f_body,          \* body of the POST
    f_response,      \* the answer to the POST, if any
    f_result,        \* what execute returned
    \* Abort operation
    a_pc,            \* position of the Abort operation
    a_state,         \* InitMultipartState handed to it
    a_config,        \* ObjectConfig: custom_host, proxy_suffix
    a_requests,      \* requests it has sent (a bag)
    a_response,      \* the answer it received, if any
    a_result,        \* what execute returned
    \* AuthorizationService on two signing requests
    s_pc,            \* position: "start" or "done"
    s_config,        \* ObjectConfig: public_key, private_key
    s_param1,        \* first ObjectOptAuthParam
    s_param2,        \* second ObjectOptAuthParam
    s_header1,       \* authorization(s_param1, s_config)
    s_header2,       \* authorization(s_param2, s_config)
    \* A session: from Init or from the caller, then one operation on it
    m_pc,            \* position
    m_mime,          \* mime_type of the Init request
    m_init_response, \* the decoded body of the Init answer, if any
    m_from_init,     \* the session is the one Init returned
    m_state,         \* the InitMultipartState, if any
    m_op,            \* operation run on the session
    m_requests,      \* requests sent (a bag)
    m_result,        \* what the last operation returned
    \* Private url: GenPrivateUrlOperation and authorization_private_url
    p_pc,            \* position
    p_config,        \* ObjectConfig: public_key, private_key
    p_req,           \* GenPrivateUrlRequest, if the operation is run
    p_now,           \* seconds since the epoch read by the operation
    p_call,          \* arguments of authorization_private_url
    p_signature,     \* what authorization_private_url returned
    p_result,        \* what the operation returned
    \* ObjectPool: get() calls and drops of PooledObject
    o_max_size,      \* ObjectPool.max_size
    o_objects,       \* ObjectPool.objects, the idle objects (front first)
    o_held,          \* objects inside live PooledObjects
    o_created,       \* number of calls of creator so far
    o_last           \* the last get(): idle objects it found, what it returned

uvars == <<concurrency, file_size, pc, blk_size, part_count, index,
           remaining_size, tasks, permits, requests, parts_state, result,
           security_token>>

dvars == <<d_concurrency, content_length, d_exists, d_overwrite, d_pc, d_ranges,
           d_tasks, d_permits, d_lock, d_next, d_requests, d_file, d_written,
           d_result>>

fvars == <<f_pc, f_part_states, f_body, f_response, f_result>>

avars == <<a_pc, a_state, a_config, a_requests, a_response, a_result>>

svars == <<s_pc, s_config, s_param1, s_param2, s_header1, s_header2>>

mvars == <<m_pc, m_mime, m_init_response, m_from_init, m_state, m_op,
           m_requests, m_result>>

pvars == <<p_pc, p_config, p_req, p_now, p_call, p_signature, p_result>>

ovars == <<o_max_size, o_objects, o_held, o_created, o_last>>

vars == <<uvars, dvars, fvars, avars, svars, mvars, pvars, ovars>>

(***************************************************************************)
(* Helpers.                                                                *)
(***************************************************************************)
Min(a, b) == IF a < b THEN a ELSE b

NoResult == [ok |-> FALSE, err |-> "none", at |-> 0]
OkResult == [ok |-> TRUE, err |-> "none", at |-> 0]
ErrResult(kind, i) == [ok |-> FALSE, err |-> kind, at |-> i]

\* Option: <<>> for None, <<x>> for Some(x).
None == <<>>
Some(x) == <<x>>

\* Option::unwrap_or
UnwrapOr(o, d) == IF o = None THEN d ELSE o[1]

\* A decimal digit as a one-character string.
Digit(n) == CASE n = 0 -> "0" [] n = 1 -> "1" [] n = 2 -> "2" [] n = 3 -> "3"
              [] n = 4 -> "4" [] n = 5 -> "5" [] n = 6 -> "6" [] n = 7 -> "7"
              [] n = 8 -> "8" [] OTHER -> "9"

(***************************************************************************)
(* Finish body: sort_by part_number (stable), map etag, join(",").         *)
(***************************************************************************)
RECURSIVE InsertByPartNumber(_, _)
InsertByPartNumber(sorted, item) ==
    IF sorted = <<>> THEN <<item>>
    ELSE IF Head(sorted).part_number <= item.part_number
         THEN <<Head(sorted)>> \o InsertByPartNumber(Tail(sorted), item)
         ELSE <<item>> \o sorted

RECURSIVE SortByPartNumberFrom(_, _)
SortByPartNumberFrom(sorted, rest) ==
    IF rest = <<>> THEN sorted
    ELSE SortByPartNumberFrom(InsertByPartNumber(sorted, Head(rest)), Tail(rest))

\* Mutant of SortByPartNumber: the part states are left in completion order.
SortByPartNumberOmitted(states) == states

SortByPartNumber(states) == SortByPartNumberFrom(<<>>, states)

RECURSIVE Join(_, _)
Join(strs, sep) ==
    IF strs = <<>> THEN <<>>
    ELSE IF Len(strs) = 1 THEN Head(strs)
    ELSE Head(strs) \o sep \o Join(Tail(strs), sep)

Etags(states) == [k \in 1..Len(states) |-> states[k].etag]

FinishBody(states) == Join(Etags(SortByPartNumber(states)), <<",">>)

(***************************************************************************)
(* Requests.                                                               *)
(***************************************************************************)
\* `if let Some(ref security_token) = .. && !security_token.is_empty()`:
\* the SecurityToken header of a request, if it has one.
SecurityTokenHeader(token) ==
    IF token # None /\ token[1] # <<>> THEN Some(token[1]) ELSE None

\* InitMultipartFileApi is built with .security_token(self.security_token).
InitRequest == [method |-> "POST", query |-> "uploads", partNumber |-> 0,
                offset |-> 0, length |-> 0, body |-> <<>>,
                token |-> SecurityTokenHeader(security_token)]
\* Mutant of PartRequest: the part number sent is the index plus one.
PartRequestOneBased(i, off, len) ==
    [method |-> "PUT", query |-> "uploadId&partNumber", partNumber |-> i + 1,
     offset |-> off, length |-> len, body |-> <<>>,
     token |-> SecurityTokenHeader(security_token)]

\* try_build_part_api passes security_token to MultipartPutFileApi.
PartRequest(i, off, len) ==
    [method |-> "PUT", query |-> "uploadId&partNumber", partNumber |-> i,
     offset |-> off, length |-> len, body |-> <<>>,
     token |-> SecurityTokenHeader(security_token)]

\* FinishMultipartFileApi::new()...build() sets no security_token: the
\* field keeps its default, None.
FinishRequest(body) ==
    [method |-> "POST", query |-> "uploadId&newKey", partNumber |-> 0,
     offset |-> 0, length |-> 0, body |-> body,
     token |-> SecurityTokenHeader(None)]

AbortRequest == [method |-> "DELETE", query |-> "uploadId", partNumber |-> 0,
                 offset |-> 0, length |-> 0, body |-> <<>>,
                 token |-> SecurityTokenHeader(security_token)]

Send(reqs, r) == reqs (+) SetToBag({r})

(***************************************************************************)
(* Each specification runs one operation; the others stay idle.            *)
(***************************************************************************)
UploadIdle ==
    /\ concurrency = 0
    /\ file_size = 0
    /\ pc = "idle"
    /\ blk_size = 0
    /\ part_count = 0
    /\ index = 0
    /\ remaining_size = 0
    /\ tasks = <<>>
    /\ permits = 0
    /\ requests = EmptyBag
    /\ parts_state = <<>>
    /\ result = NoResult
    /\ security_token = None

DownloadIdle ==
    /\ d_concurrency = 0
    /\ content_length = 0
    /\ d_exists = FALSE
    /\ d_overwrite = FALSE
    /\ d_pc = "idle"
    /\ d_ranges = <<>>
    /\ d_tasks = <<>>
    /\ d_permits = 0
    /\ d_lock = 0
    /\ d_next = 0
    /\ d_requests = EmptyBag
    /\ d_file = "absent"
    /\ d_written = {}
    /\ d_result = NoResult

AbortIdle ==
    /\ a_pc = "idle"
    /\ a_state = <<>>
    /\ a_config = <<>>
    /\ a_requests = EmptyBag
    /\ a_response = <<>>
    /\ a_result = NoResult

SignIdle ==
    /\ s_pc = "idle"
    /\ s_config = <<>>
    /\ s_param1 = <<>>
    /\ s_param2 = <<>>
    /\ s_header1 = <<>>
    /\ s_header2 = <<>>

SessionIdle ==
    /\ m_pc = "idle"
    /\ m_mime = <<>>
    /\ m_init_response = <<>>
    /\ m_from_init = FALSE
    /\ m_state = <<>>
    /\ m_op = "none"
    /\ m_requests = EmptyBag
    /\ m_result = NoResult

PrivateUrlIdle ==
    /\ p_pc = "idle"
    /\ p_config = <<>>
    /\ p_req = <<>>
    /\ p_now = 0
    /\ p_call = <<>>
    /\ p_signature = NoResult
    /\ p_result = NoResult

PoolIdle ==
    /\ o_max_size = 0
    /\ o_objects = <<>>
    /\ o_held = {}
    /\ o_created = 0
    /\ o_last = <<>>

FinishIdle ==
    /\ f_pc = "idle"
    /\ f_part_states = <<>>
    /\ f_body = <<>>
    /\ f_response = <<>>
    /\ f_result = NoResult

(***************************************************************************)
(* CombinatedMultipartPutApi::execute                                      *)
(***************************************************************************)
ConcurrencyValues == {1, 2, DefaultUploadConcurrency}

Init ==
    /\ concurrency \in ConcurrencyValues
    /\ file_size \in 0..MaxFileSize
    /\ pc = "start"
    /\ blk_size = 0
    /\ part_count = 0
    /\ index = 0
    /\ remaining_size = 0
    /\ tasks = <<>>
    /\ permits = 0
    /\ requests = EmptyBag
    /\ parts_state = <<>>
    /\ result = NoResult
    /\ security_token = None
    /\ DownloadIdle
    /\ FinishIdle
    /\ AbortIdle
    /\ SignIdle
    /\ SessionIdle
    /\ PrivateUrlIdle
    /\ PoolIdle

\* init_api.execute(...) up to `.send()`.
InitSend ==
    /\ pc = "start"
    /\ requests' = Send(requests, InitRequest)
    /\ pc' = "init_sent"
    /\ UNCHANGED <<dvars, fvars, avars, svars, mvars, pvars, ovars>>
    /\ UNCHANGED security_token
    /\ UNCHANGED <<concurrency, file_size, blk_size, part_count, index,
                   remaining_size, tasks, permits, parts_state, result>>

\* Mutant of InitResponseErr: the failed Init is followed by an Abort request.
InitResponseErrAborting ==
    /\ pc = "init_sent"
    /\ \E kind \in {"transport", "status", "json"} :
          result' = ErrResult(kind, 0)
    /\ requests' = Send(requests, AbortRequest)
    /\ pc' = "done"
    /\ UNCHANGED <<dvars, fvars, avars, svars, mvars, pvars, ovars>>
    /\ UNCHANGED security_token
    /\ UNCHANGED <<concurrency, file_size, blk_size, part_count, index,
                   remaining_size, tasks, permits, parts_state>>

\* `.await?` on a failed Init: transport error, non-2xx or undecodable body.
InitResponseErr ==
    /\ pc = "init_sent"
    /\ \E kind \in {"transport", "status", "json"} :
          result' = ErrResult(kind, 0)
    /\ pc' = "done"
    /\ UNCHANGED <<dvars, fvars, avars, svars, mvars, pvars, ovars>>
    /\ UNCHANGED security_token
    /\ UNCHANGED <<concurrency, file_size, blk_size, part_count, index,
                   remaining_size, tasks, permits, requests, parts_state>>

\* part_count = (file_size + blk_size - 1) / blk_size
PartCount(fsize, bsize) == (fsize + bsize - 1) \div bsize

\* A 2xx Init response carrying BlkSize = b, then lines 117-144.
InitResponseOk ==
    /\ pc = "init_sent"
    /\ \E b \in 0..MaxBlkSize :
        /\ blk_size' = b
        /\ IF b = 0
           THEN /\ pc' = "panicked"
                /\ UNCHANGED <<part_count, remaining_size, permits>>
           ELSE /\ part_count' = PartCount(file_size, b)
                /\ remaining_size' = file_size
                /\ permits' = UploadSemaphorePermits
                /\ pc' = IF PartCount(file_size, b) = 0 THEN "joining" ELSE "spawning"
    /\ index' = 0
    /\ UNCHANGED <<dvars, fvars, avars, svars, mvars, pvars, ovars>>
    /\ UNCHANGED security_token
    /\ UNCHANGED <<concurrency, file_size, tasks, requests, parts_state, result>>

\* Mutant of BufferSize: every part, the last one included, is a whole block.
BufferSizeWholeBlock(bsize, remaining) == bsize

\* buffer_size of one loop iteration (lines 155-159).
BufferSize(bsize, remaining) == IF bsize > remaining THEN remaining ELSE bsize

\* remaining_size after one loop iteration (lines 161-163).
NextRemaining(bsize, remaining) ==
    IF remaining > bsize THEN remaining - bsize ELSE remaining

\* One iteration of `for index in 0..part_count`: tokio::spawn of a part task.
SpawnPart ==
    /\ pc = "spawning"
    /\ index < part_count
    /\ tasks' = Append(tasks, [pc |-> "spawned", index |-> index,
                               offset |-> 0,
                               buffer_size |-> BufferSize(blk_size, remaining_size),
                               ok |-> FALSE, err |-> "none",
                               part_number |-> 0, etag |-> <<>>])
    /\ remaining_size' = NextRemaining(blk_size, remaining_size)
    /\ index' = index + 1
    /\ pc' = IF index + 1 = part_count THEN "joining" ELSE "spawning"
    /\ UNCHANGED <<dvars, fvars, avars, svars, mvars, pvars, ovars>>
    /\ UNCHANGED security_token
    /\ UNCHANGED <<concurrency, file_size, blk_size, part_count, permits,
                   requests, parts_state, result>>

\* let offset = index * blk_size
PartOffset(i, bsize) == i * bsize

\* semaphore.acquire().await
TaskAcquire(t) ==
    /\ tasks[t].pc = "spawned"
    /\ permits > 0
    /\ permits' = permits - 1
    /\ tasks' = [tasks EXCEPT ![t].pc = "acquired"]
    /\ UNCHANGED <<dvars, fvars, avars, svars, mvars, pvars, ovars>>
    /\ UNCHANGED security_token
    /\ UNCHANGED <<concurrency, file_size, pc, blk_size, part_count, index,
                   remaining_size, requests, parts_state, result>>

\* ChunkFile::create_chunk_file fails: the task resolves to Err, permit dropped.
TaskReadErr(t) ==
    /\ tasks[t].pc = "acquired"
    /\ tasks' = [tasks EXCEPT ![t].pc = "done", ![t].err = "read",
                              ![t].offset = PartOffset(tasks[t].index, blk_size)]
    /\ permits' = permits + 1
    /\ UNCHANGED <<dvars, fvars, avars, svars, mvars, pvars, ovars>>
    /\ UNCHANGED security_token
    /\ UNCHANGED <<concurrency, file_size, pc, blk_size, part_count, index,
                   remaining_size, requests, parts_state, result>>

\* create_chunk_file succeeds, try_build_part_api, part_api.execute up to send.
TaskReadAndPut(t) ==
    /\ tasks[t].pc = "acquired"
    /\ LET off == PartOffset(tasks[t].index, blk_size)
           len == tasks[t].buffer_size
       IN IF len = 0
          THEN \* is_buffer_not_empty rejects the buffer: `return Err(e)`
               /\ tasks' = [tasks EXCEPT ![t].pc = "done", ![t].err = "build",
                                         ![t].offset = off]
               /\ permits' = permits + 1
               /\ UNCHANGED requests
          ELSE /\ tasks' = [tasks EXCEPT ![t].pc = "put", ![t].offset = off]
               /\ requests' = Send(requests, PartRequest(tasks[t].index, off, len))
               /\ UNCHANGED permits
    /\ UNCHANGED <<dvars, fvars, avars, svars, mvars, pvars, ovars>>
    /\ UNCHANGED security_token
    /\ UNCHANGED <<concurrency, file_size, pc, blk_size, part_count, index,
                   remaining_size, parts_state, result>>

\* The ETag header the service answers for a part (quotes already removed).
EtagOf(i) == <<"e", Digit(i)>>

\* Mutant of TaskPutErr: a failed PUT is sent once more.
TaskPutErrRetrying(t) ==
    /\ tasks[t].pc = "put"
    /\ requests' = Send(requests, PartRequest(tasks[t].index, tasks[t].offset,
                                              tasks[t].buffer_size))
    /\ UNCHANGED <<dvars, fvars, avars, svars, mvars, pvars, ovars>>
    /\ UNCHANGED security_token
    /\ UNCHANGED <<concurrency, file_size, pc, blk_size, part_count, index,
                   remaining_size, tasks, permits, parts_state, result>>

\* The PUT resolves with an error; drop(permit); result.
TaskPutErr(t) ==
    /\ tasks[t].pc = "put"
    /\ \E kind \in {"transport", "status", "json"} :
          tasks' = [tasks EXCEPT ![t].pc = "done", ![t].err = kind]
    /\ permits' = permits + 1
    /\ UNCHANGED <<dvars, fvars, avars, svars, mvars, pvars, ovars>>
    /\ UNCHANGED security_token
    /\ UNCHANGED <<concurrency, file_size, pc, blk_size, part_count, index,
                   remaining_size, requests, parts_state, result>>

\* The PUT resolves 2xx: PartNumber from the body, etag from the header if any.
TaskPutOk(t) ==
    /\ tasks[t].pc = "put"
    /\ \E hasEtag \in BOOLEAN :
          tasks' = [tasks EXCEPT ![t].pc = "done", ![t].ok = TRUE,
                                 ![t].part_number = tasks[t].index,
                                 ![t].etag = IF hasEtag THEN EtagOf(tasks[t].index)
                                             ELSE <<>>]
    /\ permits' = permits + 1
    /\ UNCHANGED <<dvars, fvars, avars, svars, mvars, pvars, ovars>>
    /\ UNCHANGED security_token
    /\ UNCHANGED <<concurrency, file_size, pc, blk_size, part_count, index,
                   remaining_size, requests, parts_state, result>>

AllResolved == \A t \in 1..Len(tasks) : tasks[t].pc = "done"

FailedTasks == {t \in 1..Len(tasks) : tasks[t].pc = "done" /\ ~tasks[t].ok}

\* Mutant of FirstFailed: the failed part with the highest index.
LastFailed == CHOOSE t \in FailedTasks : \A u \in FailedTasks : t >= u

FirstFailed == CHOOSE t \in FailedTasks : \A u \in FailedTasks : t <= u

PartState(t) == [part_number |-> tasks[t].part_number, etag |-> tasks[t].etag]

\* Mutant of JoinAllErr: fail fast, the first failure is returned while
\* sibling parts are still running.
JoinAllErrFailFast ==
    /\ pc = "joining"
    /\ FailedTasks # {}
    /\ result' = ErrResult(tasks[FirstFailed].err, tasks[FirstFailed].index)
    /\ pc' = "done"
    /\ UNCHANGED <<dvars, fvars, avars, svars, mvars, pvars, ovars>>
    /\ UNCHANGED security_token
    /\ UNCHANGED <<concurrency, file_size, blk_size, part_count, index,
                   remaining_size, tasks, permits, requests, parts_state>>

\* Mutant of JoinAllErr: the session is aborted before the error is returned.
JoinAllErrAborting ==
    /\ pc = "joining"
    /\ AllResolved
    /\ FailedTasks # {}
    /\ requests' = Send(requests, AbortRequest)
    /\ result' = ErrResult(tasks[FirstFailed].err, tasks[FirstFailed].index)
    /\ pc' = "done"
    /\ UNCHANGED <<dvars, fvars, avars, svars, mvars, pvars, ovars>>
    /\ UNCHANGED security_token
    /\ UNCHANGED <<concurrency, file_size, blk_size, part_count, index,
                   remaining_size, tasks, permits, parts_state>>

\* join_all(tasks).await, then `result??` on the first failed part.
JoinAllErr ==
    /\ pc = "joining"
    /\ AllResolved
    /\ FailedTasks # {}
    /\ result' = ErrResult(tasks[FirstFailed].err, tasks[FirstFailed].index)
    /\ pc' = "done"
    /\ UNCHANGED <<dvars, fvars, avars, svars, mvars, pvars, ovars>>
    /\ UNCHANGED security_token
    /\ UNCHANGED <<concurrency, file_size, blk_size, part_count, index,
                   remaining_size, tasks, permits, requests, parts_state>>

\* The part states of the tasks that resolved Ok, in task order.
RECURSIVE OkPartStatesFrom(_)
OkPartStatesFrom(t) ==
    IF t > Len(tasks) THEN <<>>
    ELSE (IF tasks[t].pc = "done" /\ tasks[t].ok THEN <<PartState(t)>> ELSE <<>>)
             \o OkPartStatesFrom(t + 1)

\* Mutant of JoinAllFinish: failed parts are skipped instead of propagated.
JoinAllFinishSkippingErrors ==
    /\ pc = "joining"
    /\ AllResolved
    /\ parts_state' = OkPartStatesFrom(1)
    /\ requests' = Send(requests, FinishRequest(FinishBody(parts_state')))
    /\ pc' = "finish_sent"
    /\ UNCHANGED <<dvars, fvars, avars, svars, mvars, pvars, ovars>>
    /\ UNCHANGED security_token
    /\ UNCHANGED <<concurrency, file_size, blk_size, part_count, index,
                   remaining_size, tasks, permits, result>>

\* Mutant of JoinAllFinish: Finish is sent without waiting for the parts that
\* are still running.
JoinAllFinishEarly ==
    /\ pc = "joining"
    /\ FailedTasks = {}
    /\ parts_state' = OkPartStatesFrom(1)
    /\ requests' = Send(requests, FinishRequest(FinishBody(parts_state')))
    /\ pc' = "finish_sent"
    /\ UNCHANGED <<dvars, fvars, avars, svars, mvars, pvars, ovars>>
    /\ UNCHANGED security_token
    /\ UNCHANGED <<concurrency, file_size, blk_size, part_count, index,
                   remaining_size, tasks, permits, result>>

\* join_all(tasks).await, every part Ok: FinishMultipartFileApi ... execute up to send.
JoinAllFinish ==
    /\ pc = "joining"
    /\ AllResolved
    /\ FailedTasks = {}
    /\ parts_state' = [t \in 1..Len(tasks) |-> PartState(t)]
    /\ requests' = Send(requests, FinishRequest(FinishBody(parts_state')))
    /\ pc' = "finish_sent"
    /\ UNCHANGED <<dvars, fvars, avars, svars, mvars, pvars, ovars>>
    /\ UNCHANGED security_token
    /\ UNCHANGED <<concurrency, file_size, blk_size, part_count, index,
                   remaining_size, tasks, permits, result>>

\* The Finish POST resolves.
FinishResponse ==
    /\ pc = "finish_sent"
    /\ \E kind \in {"ok", "transport", "status", "json"} :
          result' = IF kind = "ok" THEN OkResult ELSE ErrResult(kind, 0)
    /\ pc' = "done"
    /\ UNCHANGED <<dvars, fvars, avars, svars, mvars, pvars, ovars>>
    /\ UNCHANGED security_token
    /\ UNCHANGED <<concurrency, file_size, blk_size, part_count, index,
                   remaining_size, tasks, permits, requests, parts_state>>

Next ==
    \/ InitSend
    \/ InitResponseErr
    \/ InitResponseOk
    \/ SpawnPart
    \/ \E t \in 1..Len(tasks) : TaskAcquire(t)
    \/ \E t \in 1..Len(tasks) : TaskReadErr(t)
    \/ \E t \in 1..Len(tasks) : TaskReadAndPut(t)
    \/ \E t \in 1..Len(tasks) : TaskPutErr(t)
    \/ \E t \in 1..Len(tasks) : TaskPutOk(t)
    \/ JoinAllErr
    \/ JoinAllFinish
    \/ FinishResponse

Spec == Init /\ [][Next]_vars

\* The upload with the security token left unset, set to "" or set.
SecurityTokens == {None, Some(<<>>), Some(<<"t">>)}

InitSecurityToken ==
    /\ concurrency = DefaultUploadConcurrency
    /\ file_size \in 0..MaxFileSize
    /\ pc = "start"
    /\ blk_size = 0
    /\ part_count = 0
    /\ index = 0
    /\ remaining_size = 0
    /\ tasks = <<>>
    /\ permits = 0
    /\ requests = EmptyBag
    /\ parts_state = <<>>
    /\ result = NoResult
    /\ security_token \in SecurityTokens
    /\ DownloadIdle
    /\ FinishIdle
    /\ AbortIdle
    /\ SignIdle
    /\ SessionIdle
    /\ PrivateUrlIdle
    /\ PoolIdle

SpecSecurityToken == InitSecurityToken /\ [][Next]_vars

(***************************************************************************)
(* DownloadFileOperation::execute                                          *)
(***************************************************************************)
\* chunk_count = (total + MULTIPART_SIZE - 1).div_ceil(MULTIPART_SIZE)
DivCeil(a, b) == (a + b - 1) \div b

ChunkCount(total) == DivCeil(total + MULTIPART_SIZE - 1, MULTIPART_SIZE)

\* ranges = (0..chunk_count).map(|i| Range { start, end })
Ranges(total) ==
    [k \in 1..ChunkCount(total) |->
        [start |-> (k - 1) * MULTIPART_SIZE,
         end |-> Min(k * MULTIPART_SIZE, total)]]

\* DownloadFileApi::execute (download_file_api.rs): chunk_count by integer
\* division, then the same map over 0..chunk_count.
LegacyChunkCount(total) == (total + MULTIPART_SIZE - 1) \div MULTIPART_SIZE

LegacyRanges(total) ==
    [k \in 1..LegacyChunkCount(total) |->
        [start |-> (k - 1) * MULTIPART_SIZE,
         end |-> Min(k * MULTIPART_SIZE, total)]]

\* concurrency as usize, or DEFAULT_CONCURRENCY when None
Concurrency(c) == IF c = NoConcurrency THEN DEFAULT_CONCURRENCY ELSE c

ContentLengths ==
    {n \in {k * MULTIPART_SIZE + d : k \in 0..MaxChunks, d \in {0 - 1, 0, 1}} :
        n >= 0} \cup {10000000}

DownloadConcurrencies == {NoConcurrency} \cup 0..MaxDownloadConcurrency

InitDownload ==
    /\ d_concurrency \in DownloadConcurrencies
    /\ content_length \in ContentLengths
    /\ d_exists \in BOOLEAN
    /\ d_overwrite \in BOOLEAN
    /\ d_pc = "start"
    /\ d_ranges = <<>>
    /\ d_tasks = <<>>
    /\ d_permits = 0
    /\ d_lock = 0
    /\ d_next = 0
    /\ d_requests = EmptyBag
    /\ d_file = IF d_exists THEN "old" ELSE "absent"
    /\ d_written = {}
    /\ d_result = NoResult
    /\ UploadIdle
    /\ FinishIdle
    /\ AbortIdle
    /\ SignIdle
    /\ SessionIdle
    /\ PrivateUrlIdle
    /\ PoolIdle

\* Mutant of DownloadRefuse: the file is created before the check.
DownloadRefuseAfterCreate ==
    /\ d_pc = "start"
    /\ d_exists /\ ~d_overwrite
    /\ d_ranges' = Ranges(content_length)
    /\ d_permits' = Concurrency(d_concurrency)
    /\ d_file' = "created"
    /\ d_result' = ErrResult("exists", 0)
    /\ d_pc' = "done"
    /\ UNCHANGED <<uvars, fvars, avars, svars, mvars, pvars, ovars>>
    /\ UNCHANGED <<d_concurrency, content_length, d_exists, d_overwrite,
                   d_tasks, d_lock, d_next, d_requests, d_written>>

\* Lines 104-148 when the destination exists and overwrite is false.
DownloadRefuse ==
    /\ d_pc = "start"
    /\ d_exists /\ ~d_overwrite
    /\ d_ranges' = Ranges(content_length)
    /\ d_permits' = Concurrency(d_concurrency)
    /\ d_result' = ErrResult("exists", 0)
    /\ d_pc' = "done"
    /\ UNCHANGED <<uvars, fvars, avars, svars, mvars, pvars, ovars>>
    /\ UNCHANGED <<d_concurrency, content_length, d_exists, d_overwrite,
                   d_tasks, d_lock, d_next, d_requests, d_file,
                   d_written>>

\* Lines 104-151: split, semaphore, destination file created.
DownloadStart ==
    /\ d_pc = "start"
    /\ ~(d_exists /\ ~d_overwrite)
    /\ d_ranges' = Ranges(content_length)
    /\ d_permits' = Concurrency(d_concurrency)
    /\ d_file' = "created"
    /\ d_written' = {}
    /\ d_next' = 1
    /\ d_pc' = "spawning"
    /\ UNCHANGED <<uvars, fvars, avars, svars, mvars, pvars, ovars>>
    /\ UNCHANGED <<d_concurrency, content_length, d_exists, d_overwrite,
                   d_tasks, d_lock, d_requests, d_result>>

\* One iteration of `for range in ranges`: tokio::spawn of a range task.
DownloadSpawn ==
    /\ d_pc = "spawning"
    /\ Len(d_tasks) < Len(d_ranges)
    /\ d_tasks' = Append(d_tasks, [pc |-> "spawned", ok |-> FALSE, err |-> "none",
                                   start |-> d_ranges[Len(d_tasks) + 1].start,
                                   end |-> d_ranges[Len(d_tasks) + 1].end,
                                   status |-> 0, obj |-> 0, len |-> 0])
    /\ d_pc' = IF Len(d_tasks) + 1 = Len(d_ranges) THEN "joining" ELSE "spawning"
    /\ UNCHANGED <<uvars, fvars, avars, svars, mvars, pvars, ovars>>
    /\ UNCHANGED <<d_concurrency, content_length, d_exists, d_overwrite, d_ranges,
                   d_permits, d_lock, d_next, d_requests, d_file,
                   d_written, d_result>>

RangeRequest(r) == [method |-> "GET", start |-> r.start, end |-> r.end]

\* Mutant of RangeAcquire: the task goes on without waiting for a permit.
RangeAcquireUngated(t) ==
    /\ d_tasks[t].pc = "spawned"
    /\ d_permits' = d_permits - 1
    /\ d_tasks' = [d_tasks EXCEPT ![t].pc = "get"]
    /\ d_requests' = Send(d_requests, RangeRequest(d_tasks[t]))
    /\ UNCHANGED <<uvars, fvars, avars, svars, mvars, pvars, ovars>>
    /\ UNCHANGED <<d_concurrency, content_length, d_exists, d_overwrite, d_pc,
                   d_ranges, d_lock, d_next, d_file,
                   d_written, d_result>>

\* semphore.acquire().await, then the GET is built and sent.
RangeAcquire(t) ==
    /\ d_tasks[t].pc = "spawned"
    /\ d_permits > 0
    /\ d_permits' = d_permits - 1
    /\ d_tasks' = [d_tasks EXCEPT ![t].pc = "get"]
    /\ d_requests' = Send(d_requests, RangeRequest(d_tasks[t]))
    /\ UNCHANGED <<uvars, fvars, avars, svars, mvars, pvars, ovars>>
    /\ UNCHANGED <<d_concurrency, content_length, d_exists, d_overwrite, d_pc,
                   d_ranges, d_lock, d_next, d_file,
                   d_written, d_result>>

\* The task returns Err; _permit is dropped, and the file guard if it is held.
RangeFail(t, kind) ==
    /\ d_tasks' = [d_tasks EXCEPT ![t].pc = "done", ![t].err = kind]
    /\ d_permits' = d_permits + 1
    /\ d_lock' = IF d_lock = t THEN 0 ELSE d_lock

\* What the object service answers to `Range: bytes={start}-{end}` on an object
\* of `total` bytes: the last position is inclusive and is cut at the object's
\* end; a first position at or past the end cannot be satisfied; a range whose
\* last position is before its first one is not a range, and the service either
\* ignores the header and sends the whole object or rejects the request.
RangeResponses(r, total) ==
    IF r.start > r.end
    THEN {[status |-> 200, obj |-> 0, len |-> total],
          [status |-> 416, obj |-> 0, len |-> 0]}
    ELSE IF r.start >= total
    THEN {[status |-> 416, obj |-> 0, len |-> 0]}
    ELSE {[status |-> 206, obj |-> r.start,
           len |-> Min(r.end, total - 1) - r.start + 1]}

\* response.status().is_success()
IsSuccess(status) == status >= 200 /\ status <= 299

\* send().await fails, or the status is not 2xx: the service's own refusal of
\* the range, or a server error.
RangeGetErr(t) ==
    /\ d_tasks[t].pc = "get"
    /\ \/ /\ RangeFail(t, "transport")
       \/ \E st \in {500} \cup {resp.status : resp \in
                      {x \in RangeResponses(d_tasks[t], content_length) :
                          ~IsSuccess(x.status)}} :
              /\ d_tasks' = [d_tasks EXCEPT ![t].pc = "done", ![t].err = "status",
                                            ![t].status = st]
              /\ d_permits' = d_permits + 1
              /\ d_lock' = IF d_lock = t THEN 0 ELSE d_lock
    /\ UNCHANGED <<uvars, fvars, avars, svars, mvars, pvars, ovars>>
    /\ UNCHANGED <<d_concurrency, content_length, d_exists, d_overwrite, d_pc,
                   d_ranges, d_next, d_requests, d_file,
                   d_written, d_result>>

\* 2xx status: response.bytes() starts.
RangeGetOk(t) ==
    /\ d_tasks[t].pc = "get"
    /\ \E resp \in RangeResponses(d_tasks[t], content_length) :
          /\ IsSuccess(resp.status)
          /\ d_tasks' = [d_tasks EXCEPT ![t].pc = "body",
                                        ![t].status = resp.status,
                                        ![t].obj = resp.obj,
                                        ![t].len = resp.len]
    /\ UNCHANGED <<uvars, fvars, avars, svars, mvars, pvars, ovars>>
    /\ UNCHANGED <<d_concurrency, content_length, d_exists, d_overwrite, d_pc,
                   d_ranges, d_permits, d_lock, d_next, d_requests, d_file,
                   d_written, d_result>>

\* response.bytes().await fails.
RangeBodyErr(t) ==
    /\ d_tasks[t].pc = "body"
    /\ RangeFail(t, "body")
    /\ UNCHANGED <<uvars, fvars, avars, svars, mvars, pvars, ovars>>
    /\ UNCHANGED <<d_concurrency, content_length, d_exists, d_overwrite, d_pc,
                   d_ranges, d_next, d_requests, d_file,
                   d_written, d_result>>

\* The body is read; the task waits on file.lock().
RangeBodyOk(t) ==
    /\ d_tasks[t].pc = "body"
    /\ d_tasks' = [d_tasks EXCEPT ![t].pc = "lock"]
    /\ UNCHANGED <<uvars, fvars, avars, svars, mvars, pvars, ovars>>
    /\ UNCHANGED <<d_concurrency, content_length, d_exists, d_overwrite, d_pc,
                   d_ranges, d_permits, d_lock, d_next, d_requests, d_file,
                   d_written, d_result>>

\* Mutant of RangeLock: the file is used without waiting for the guard.
RangeLockUnguarded(t) ==
    /\ d_tasks[t].pc = "lock"
    /\ d_lock' = t
    /\ d_tasks' = [d_tasks EXCEPT ![t].pc = "seek"]
    /\ UNCHANGED <<uvars, fvars, avars, svars, mvars, pvars, ovars>>
    /\ UNCHANGED <<d_concurrency, content_length, d_exists, d_overwrite, d_pc,
                   d_ranges, d_permits, d_next, d_requests, d_file,
                   d_written, d_result>>

\* file.lock().await returns the guard; file.seek(..) starts.
RangeLock(t) ==
    /\ d_tasks[t].pc = "lock"
    /\ d_lock = 0
    /\ d_lock' = t
    /\ d_tasks' = [d_tasks EXCEPT ![t].pc = "seek"]
    /\ UNCHANGED <<uvars, fvars, avars, svars, mvars, pvars, ovars>>
    /\ UNCHANGED <<d_concurrency, content_length, d_exists, d_overwrite, d_pc,
                   d_ranges, d_permits, d_next, d_requests, d_file,
                   d_written, d_result>>

\* file.seek(..).await fails.
RangeSeekErr(t) ==
    /\ d_tasks[t].pc = "seek"
    /\ RangeFail(t, "seek")
    /\ UNCHANGED <<uvars, fvars, avars, svars, mvars, pvars, ovars>>
    /\ UNCHANGED <<d_concurrency, content_length, d_exists, d_overwrite, d_pc,
                   d_ranges, d_next, d_requests, d_file,
                   d_written, d_result>>

\* file.seek(..).await succeeds; file.write_all(..) starts.
RangeSeekOk(t) ==
    /\ d_tasks[t].pc = "seek"
    /\ d_tasks' = [d_tasks EXCEPT ![t].pc = "write"]
    /\ UNCHANGED <<uvars, fvars, avars, svars, mvars, pvars, ovars>>
    /\ UNCHANGED <<d_concurrency, content_length, d_exists, d_overwrite, d_pc,
                   d_ranges, d_permits, d_lock, d_next, d_requests, d_file,
                   d_written, d_result>>

\* file.write_all(..).await fails.
RangeWriteErr(t) ==
    /\ d_tasks[t].pc = "write"
    /\ RangeFail(t, "write")
    /\ UNCHANGED <<uvars, fvars, avars, svars, mvars, pvars, ovars>>
    /\ UNCHANGED <<d_concurrency, content_length, d_exists, d_overwrite, d_pc,
                   d_ranges, d_next, d_requests, d_file,
                   d_written, d_result>>

\* file.write_all(..).await succeeds: Ok(()), guard and permit dropped.
RangeWriteOk(t) ==
    /\ d_tasks[t].pc = "write"
    /\ d_tasks' = [d_tasks EXCEPT ![t].pc = "done", ![t].ok = TRUE]
    /\ d_written' = d_written \cup {[off |-> d_tasks[t].start,
                                      obj |-> d_tasks[t].obj,
                                      len |-> d_tasks[t].len]}
    /\ d_permits' = d_permits + 1
    /\ d_lock' = 0
    /\ UNCHANGED <<uvars, fvars, avars, svars, mvars, pvars, ovars>>
    /\ UNCHANGED <<d_concurrency, content_length, d_exists, d_overwrite, d_pc,
                   d_ranges, d_next, d_requests, d_file, d_result>>

\* Mutant of DownloadAwaitOk: the task's own result is dropped, not propagated.
DownloadAwaitAnyResult ==
    /\ d_pc = "joining"
    /\ d_next <= Len(d_tasks)
    /\ d_tasks[d_next].pc = "done"
    /\ d_next' = d_next + 1
    /\ IF d_next = Len(d_tasks)
       THEN d_pc' = "done" /\ d_result' = OkResult
       ELSE UNCHANGED <<d_pc, d_result>>
    /\ UNCHANGED <<uvars, fvars, avars, svars, mvars, pvars, ovars>>
    /\ UNCHANGED <<d_concurrency, content_length, d_exists, d_overwrite,
                   d_ranges, d_tasks, d_permits, d_lock, d_requests, d_file,
                   d_written>>

\* `handle.await??` on a handle whose task returned Ok: next handle, or Ok(()).
DownloadAwaitOk ==
    /\ d_pc = "joining"
    /\ d_next <= Len(d_tasks)
    /\ d_tasks[d_next].pc = "done"
    /\ d_tasks[d_next].ok
    /\ d_next' = d_next + 1
    /\ IF d_next = Len(d_tasks)
       THEN d_pc' = "done" /\ d_result' = OkResult
       ELSE UNCHANGED <<d_pc, d_result>>
    /\ UNCHANGED <<uvars, fvars, avars, svars, mvars, pvars, ovars>>
    /\ UNCHANGED <<d_concurrency, content_length, d_exists, d_overwrite,
                   d_ranges, d_tasks, d_permits, d_lock, d_requests, d_file,
                   d_written>>

\* Mutant of DownloadAwaitErr: the destination file is removed on failure.
DownloadAwaitErrRemovingFile ==
    /\ d_pc = "joining"
    /\ d_next <= Len(d_tasks)
    /\ d_tasks[d_next].pc = "done"
    /\ ~d_tasks[d_next].ok
    /\ d_result' = ErrResult(d_tasks[d_next].err, d_next - 1)
    /\ d_pc' = "done"
    /\ d_file' = "absent"
    /\ d_written' = {}
    /\ UNCHANGED <<uvars, fvars, avars, svars, mvars, pvars, ovars>>
    /\ UNCHANGED <<d_concurrency, content_length, d_exists, d_overwrite, d_next,
                   d_ranges, d_tasks, d_permits, d_lock, d_requests>>

\* `handle.await??` on a handle whose task returned Err: execute returns it.
DownloadAwaitErr ==
    /\ d_pc = "joining"
    /\ d_next <= Len(d_tasks)
    /\ d_tasks[d_next].pc = "done"
    /\ ~d_tasks[d_next].ok
    /\ d_result' = ErrResult(d_tasks[d_next].err, d_next - 1)
    /\ d_pc' = "done"
    /\ UNCHANGED <<uvars, fvars, avars, svars, mvars, pvars, ovars>>
    /\ UNCHANGED <<d_concurrency, content_length, d_exists, d_overwrite, d_next,
                   d_ranges, d_tasks, d_permits, d_lock, d_requests, d_file,
                   d_written>>

NextDownload ==
    \/ DownloadRefuse
    \/ DownloadStart
    \/ DownloadSpawn
    \/ \E t \in 1..Len(d_tasks) : RangeAcquire(t)
    \/ \E t \in 1..Len(d_tasks) : RangeGetErr(t)
    \/ \E t \in 1..Len(d_tasks) : RangeGetOk(t)
    \/ \E t \in 1..Len(d_tasks) : RangeBodyErr(t)
    \/ \E t \in 1..Len(d_tasks) : RangeBodyOk(t)
    \/ \E t \in 1..Len(d_tasks) : RangeLock(t)
    \/ \E t \in 1..Len(d_tasks) : RangeSeekErr(t)
    \/ \E t \in 1..Len(d_tasks) : RangeSeekOk(t)
    \/ \E t \in 1..Len(d_tasks) : RangeWriteErr(t)
    \/ \E t \in 1..Len(d_tasks) : RangeWriteOk(t)
    \/ DownloadAwaitOk
    \/ DownloadAwaitErr

SpecDownload == InitDownload /\ [][NextDownload]_vars

\* The runtime keeps polling execute and every spawned task, and every
\* request and file operation completes: a step that can be taken is taken.
SpecDownloadFair == SpecDownload /\ WF_vars(NextDownload)

(***************************************************************************)
(* Strings and options.  A string is a sequence of one-character strings;  *)
(* an Option is <<>> for None and <<x>> for Some(x).                       *)
(***************************************************************************)
\* urlencoding::encode on one character: letters, digits and -_.~ are kept,
\* any other byte becomes %XX.
UrlEncodeChar(c) ==
    IF c = "/" THEN <<"%", "2", "F">>
    ELSE IF c = " " THEN <<"%", "2", "0">>
    ELSE <<c>>

RECURSIVE UrlEncode(_)
UrlEncode(str) ==
    IF str = <<>> THEN <<>>
    ELSE UrlEncodeChar(Head(str)) \o UrlEncode(Tail(str))

\* ObjectConfig::generate_final_host
GenerateFinalHost(cfg, bucket_name, key_name) ==
    IF cfg.custom_host # None
    THEN cfg.custom_host[1] \o <<"/">> \o UrlEncode(key_name)
    ELSE cfg.protocol \o <<":", "/", "/">> \o UrlEncode(bucket_name) \o <<".">>
         \o UrlEncode(cfg.region) \o <<".">>
         \o UrlEncode(UnwrapOr(cfg.proxy_suffix, <<>>))
         \o <<"/">> \o UrlEncode(key_name)

\* Status codes the service may answer with.
Statuses == {200, 204, 299, 300, 400, 404, 500}

\* Bodies of a non-2xx answer as resp.json::<BaseResponse>() sees them: None
\* when the body does not decode, else the envelope's RetCode and Message.
BaseResponses ==
    {None, Some([ret_code |-> 1, message |-> <<"m">>]),
           Some([ret_code |-> 2, message |-> <<"n">>])}

(***************************************************************************)
(* The Finish operation on a list of part states                           *)
(* (MultipartFinishOperation::execute, FinishMultipartFileApi::execute).   *)
(***************************************************************************)
PartNumbers == 0..MaxPartNumber

EtagValues == {<<>>, <<"a">>, <<"b">>, <<"a", "b">>}

PartStates == [part_number : PartNumbers, etag : EtagValues]

PartStateLists ==
    UNION {[1..n -> PartStates] : n \in 0..MaxPartStates}

InitFinish ==
    /\ f_pc = "start"
    /\ f_part_states \in PartStateLists
    /\ f_body = <<>>
    /\ f_response = None
    /\ f_result = NoResult
    /\ UploadIdle
    /\ DownloadIdle
    /\ AbortIdle
    /\ SignIdle
    /\ SessionIdle
    /\ PrivateUrlIdle
    /\ PoolIdle

\* part_states.sort_by(..); body_buffer = ...join(","); POST sent.
FinishExecute ==
    /\ f_pc = "start"
    /\ f_body' = FinishBody(f_part_states)
    /\ f_pc' = "sent"
    /\ UNCHANGED <<uvars, dvars, avars, svars, mvars, pvars, ovars>>
    /\ UNCHANGED <<f_part_states, f_response, f_result>>

\* send().await? fails: no response.
FinishTransportErr ==
    /\ f_pc = "sent"
    /\ f_result' = ErrResult("transport", 0)
    /\ f_pc' = "done"
    /\ UNCHANGED <<uvars, dvars, avars, svars, mvars, pvars, ovars>>
    /\ UNCHANGED <<f_part_states, f_body, f_response>>

\* Answers to the POST: a status, an ETag header or none, and a body that
\* decodes or not and carries an ETag field or not.
FinishResponses ==
    {r \in [status : Statuses, etag_header : {None, Some(<<"h">>)},
            json : BOOLEAN, body_etag : {None, Some(<<"j">>)},
            base : BaseResponses] :
        IF IsSuccess(r.status) THEN r.base = None
        ELSE r.json = (r.base # None)}

\* What execute returns on success: the decoded body with its etag field set.
FinishUploadResponse(etag) == [ok |-> TRUE, err |-> "none", at |-> 0, etag |-> etag]

\* Mutant of FinishEtag: without the header, the body's ETag field is taken.
FinishEtagFromBody(resp) ==
    IF resp.etag_header # None THEN resp.etag_header[1]
    ELSE UnwrapOr(resp.body_etag, <<>>)

\* etag of the returned FinishUploadResponse: the field is skip_deserializing,
\* so it is String::default() after resp.json(), then the header if there is one.
FinishEtag(resp) ==
    IF resp.etag_header # None THEN resp.etag_header[1] ELSE <<>>

\* A 2xx answer: resp.json() (`?` when the body does not decode), then the
\* etag header is copied over.
FinishOperationOk ==
    /\ f_pc = "sent"
    /\ \E resp \in FinishResponses :
          /\ IsSuccess(resp.status)
          /\ f_response' = Some(resp)
          /\ f_result' = IF resp.json THEN FinishUploadResponse(FinishEtag(resp))
                         ELSE ErrResult("json", 0)
    /\ f_pc' = "done"
    /\ UNCHANGED <<uvars, dvars, avars, svars, mvars, pvars, ovars>>
    /\ UNCHANGED <<f_part_states, f_body>>

\* Any other status: BaseResponse decoded (`?`) and logged, then
\* Err(Error::msg("Failed to finish multipart upload task.")).
FinishOperationErr ==
    /\ f_pc = "sent"
    /\ \E resp \in FinishResponses :
          /\ ~IsSuccess(resp.status)
          /\ f_response' = Some(resp)
          /\ f_result' = ErrResult(IF resp.json THEN "status" ELSE "json", 0)
    /\ f_pc' = "done"
    /\ UNCHANGED <<uvars, dvars, avars, svars, mvars, pvars, ovars>>
    /\ UNCHANGED <<f_part_states, f_body>>

NextFinish ==
    \/ FinishExecute
    \/ FinishTransportErr
    \/ FinishOperationOk
    \/ FinishOperationErr

SpecFinish == InitFinish /\ [][NextFinish]_vars

(***************************************************************************)
(* An upload by CombinatedMultipartPutApi followed by a download of the    *)
(* stored object by DownloadFileOperation.                                 *)
(***************************************************************************)
\* The part PUT the service received under part number n.
PartOf(n) ==
    CHOOSE r \in BagToSet(requests) :
        r.method = "PUT" /\ r.partNumber = n

\* Position in the stored object at which part n starts: the parts are laid
\* out in part-number order.
RECURSIVE ObjectOffset(_)
ObjectOffset(n) ==
    IF n = 0 THEN 0 ELSE ObjectOffset(n - 1) + PartOf(n - 1).length

\* Content-Length that the head file api reports for the stored object.
ObjectLength == ObjectOffset(part_count)

\* The stored object is the uploaded file: every part sits in the object at the
\* offset it was read from, and nothing is missing at the end.
ObjectIsFile ==
    /\ ObjectLength = file_size
    /\ \A n \in 0..(part_count - 1) : PartOf(n).offset = ObjectOffset(n)

InitRoundTrip ==
    /\ concurrency = DefaultUploadConcurrency
    /\ file_size \in 1..MaxFileSize
    /\ pc = "start"
    /\ blk_size = 0
    /\ part_count = 0
    /\ index = 0
    /\ remaining_size = 0
    /\ tasks = <<>>
    /\ permits = 0
    /\ requests = EmptyBag
    /\ parts_state = <<>>
    /\ result = NoResult
    /\ security_token = None
    /\ DownloadIdle
    /\ FinishIdle
    /\ AbortIdle
    /\ SignIdle
    /\ SessionIdle
    /\ PrivateUrlIdle
    /\ PoolIdle

\* After a successful upload the caller heads the object and builds a
\* DownloadFileConfig: head.content_length is the stored length, concurrency
\* is left at its default, dest may exist, overwrite is the caller's choice.
HeadFile ==
    /\ pc = "done"
    /\ result.ok
    /\ d_pc = "idle"
    /\ content_length' = ObjectLength
    /\ d_concurrency' = NoConcurrency
    /\ d_exists' \in BOOLEAN
    /\ d_overwrite' \in BOOLEAN
    /\ d_file' = IF d_exists' THEN "old" ELSE "absent"
    /\ d_pc' = "start"
    /\ UNCHANGED <<uvars, fvars, avars, svars, mvars, pvars, ovars>>
    /\ UNCHANGED <<d_ranges, d_tasks, d_permits, d_lock, d_next, d_requests,
                   d_written, d_result>>

NextRoundTrip ==
    \/ Next
    \/ HeadFile
    \/ NextDownload

SpecRoundTrip == InitRoundTrip /\ [][NextRoundTrip]_vars

(***************************************************************************)
(* MultipartAbortOperation::execute (and AbortMultipartUploadApi::execute) *)
(***************************************************************************)
UploadIds == {<<"a", "b", "c", "1", "2", "3">>, <<"u", " ", "1">>, <<>>}

KeyNames == {<<"k">>, <<"d", "/", "k">>}

AbortStates ==
    [upload_id : UploadIds, bucket : {<<"b">>}, key_name : KeyNames,
     mime_type : {None, Some(<<"t">>)}]

ObjectConfigs ==
    [custom_host : {None, Some(<<"h">>)}, proxy_suffix : {None, Some(<<"u">>)},
     region : {<<"c", "n">>}, protocol : {<<"h", "t", "t", "p", "s">>}]

InitAbort ==
    /\ a_pc = "start"
    /\ a_state \in AbortStates
    /\ a_config \in ObjectConfigs
    /\ a_requests = EmptyBag
    /\ a_response = None
    /\ a_result = NoResult
    /\ UploadIdle
    /\ DownloadIdle
    /\ FinishIdle
    /\ SignIdle
    /\ SessionIdle
    /\ PrivateUrlIdle
    /\ PoolIdle

\* state.mime_type is None: Err("mime type is unset.") before any request.
AbortRefuse ==
    /\ a_pc = "start"
    /\ a_state.mime_type = None
    /\ a_result' = ErrResult("mime", 0)
    /\ a_pc' = "done"
    /\ UNCHANGED <<uvars, dvars, fvars, svars, mvars, pvars, ovars>>
    /\ UNCHANGED <<a_state, a_config, a_requests, a_response>>

\* format!("{}?uploadId={}", url, state.upload_id)
AbortUrl(cfg, state) ==
    GenerateFinalHost(cfg, state.bucket, state.key_name)
    \o <<"?", "u", "p", "l", "o", "a", "d", "I", "d", "=">> \o state.upload_id

DeleteRequest(url) == [method |-> "DELETE", url |-> url]

\* Headers and url are built and the DELETE is sent.
AbortSend ==
    /\ a_pc = "start"
    /\ a_state.mime_type # None
    /\ a_requests' = Send(a_requests, DeleteRequest(AbortUrl(a_config, a_state)))
    /\ a_pc' = "sent"
    /\ UNCHANGED <<uvars, dvars, fvars, svars, mvars, pvars, ovars>>
    /\ UNCHANGED <<a_state, a_config, a_response, a_result>>

\* send().await? fails: no response.
AbortTransportErr ==
    /\ a_pc = "sent"
    /\ a_result' = ErrResult("transport", 0)
    /\ a_pc' = "done"
    /\ UNCHANGED <<uvars, dvars, fvars, svars, mvars, pvars, ovars>>
    /\ UNCHANGED <<a_state, a_config, a_requests, a_response>>

\* resp.status().is_success(): Ok(()).
AbortResponseOk ==
    /\ a_pc = "sent"
    /\ \E st \in {x \in Statuses : IsSuccess(x)} :
          a_response' = Some([status |-> st, json |-> TRUE, base |-> None])
    /\ a_result' = OkResult
    /\ a_pc' = "done"
    /\ UNCHANGED <<uvars, dvars, fvars, svars, mvars, pvars, ovars>>
    /\ UNCHANGED <<a_state, a_config, a_requests>>

\* Mutant of AbortResponseErr: an upload that is already gone counts as aborted.
AbortResponseErrOkWhenGone ==
    /\ a_pc = "sent"
    /\ \E st \in {x \in Statuses : ~IsSuccess(x)}, base \in BaseResponses :
          /\ a_response' = Some([status |-> st, json |-> base # None,
                                 base |-> base])
          /\ a_result' = IF st = 404 THEN OkResult
                         ELSE ErrResult(IF base # None THEN "status" ELSE "json", 0)
    /\ a_pc' = "done"
    /\ UNCHANGED <<uvars, dvars, fvars, svars, mvars, pvars, ovars>>
    /\ UNCHANGED <<a_state, a_config, a_requests>>

\* Any other status: the body is decoded as BaseResponse (`?` when it is not
\* one), logged, and Err(Error::msg("Failed to finish multipart upload
\* task.")) is returned.
AbortResponseErr ==
    /\ a_pc = "sent"
    /\ \E st \in {x \in Statuses : ~IsSuccess(x)}, base \in BaseResponses :
          /\ a_response' = Some([status |-> st, json |-> base # None,
                                 base |-> base])
          /\ a_result' = ErrResult(IF base # None THEN "status" ELSE "json", 0)
    /\ a_pc' = "done"
    /\ UNCHANGED <<uvars, dvars, fvars, svars, mvars, pvars, ovars>>
    /\ UNCHANGED <<a_state, a_config, a_requests>>

NextAbort ==
    \/ AbortRefuse
    \/ AbortSend
    \/ AbortTransportErr
    \/ AbortResponseOk
    \/ AbortResponseErr

SpecAbort == InitAbort /\ [][NextAbort]_vars

(***************************************************************************)
(* AuthorizationService::authorization and HmacSha1Signer::signature,      *)
(* applied to two signing requests under one configuration.                *)
(***************************************************************************)
Methods == {<<"G", "E", "T">>, <<"P", "U", "T">>}

BucketNames == {<<"b">>, <<"b", "d">>, <<"b", "/", "d">>}

OptionalValues(v) == {None, Some(v)}

AuthParams ==
    [method : Methods,
     bucket : BucketNames,
     key_name : KeyNames,
     content_type : {None, Some(<<>>), Some(<<"t">>)},
     content_md5 : OptionalValues(<<"m">>),
     date : OptionalValues(<<"2", "0">>),
     x_ufile_copy_source : OptionalValues(<<"s">>),
     x_ufile_copy_source_range : OptionalValues(<<"0", "-", "1">>)]

AuthFields ==
    {"method", "bucket", "key_name", "content_type", "content_md5", "date",
     "x_ufile_copy_source", "x_ufile_copy_source_range"}

\* Fields in which two signing requests differ.
DiffFields(p, q) == {f \in AuthFields : p[f] # q[f]}

KeyConfigs == [public_key : {<<"p", "u", "b">>}, private_key : {<<"x">>, <<"y">>}]

InitSign ==
    /\ s_pc = "start"
    /\ s_config \in KeyConfigs
    /\ s_param1 \in AuthParams
    /\ s_param2 \in {q \in AuthParams : Cardinality(DiffFields(s_param1, q)) <= 2}
    /\ s_header1 = <<>>
    /\ s_header2 = <<>>
    /\ UploadIdle
    /\ DownloadIdle
    /\ FinishIdle
    /\ AbortIdle
    /\ SessionIdle
    /\ PrivateUrlIdle
    /\ PoolIdle

\* Mutant of SignData: the bucket and the key are put on lines of their own.
SignDataKeyOnOwnLine(param) ==
    param.method \o <<"\n">>
    \o UnwrapOr(param.content_md5, <<>>) \o <<"\n">>
    \o UnwrapOr(param.content_type, <<>>) \o <<"\n">>
    \o UnwrapOr(param.date, <<>>) \o <<"\n">>
    \o (IF param.x_ufile_copy_source = None THEN <<>>
        ELSE <<"x", "-", "u", "f", "i", "l", "e", "-", "c", "o", "p",
               "y", "-", "s", "o", "u", "r", "c", "e", ":">>
             \o param.x_ufile_copy_source[1] \o <<"\n">>)
    \o (IF param.x_ufile_copy_source_range = None THEN <<>>
        ELSE <<"x", "-", "u", "f", "i", "l", "e", "-", "c", "o", "p",
               "y", "-", "s", "o", "u", "r", "c", "e", "-", "r", "a",
               "n", "g", "e", ":">>
             \o param.x_ufile_copy_source_range[1] \o <<"\n">>)
    \o <<"/">> \o param.bucket \o <<"\n">>
    \o <<"/">> \o param.key_name

\* sign_data of authorization (auth.rs lines 41-70).
\* Mutant of SignData: the resource is the key alone.
SignDataWithoutBucket(param) ==
    param.method \o <<"\n">>
    \o UnwrapOr(param.content_md5, <<>>) \o <<"\n">>
    \o UnwrapOr(param.content_type, <<>>) \o <<"\n">>
    \o UnwrapOr(param.date, <<>>) \o <<"\n">>
    \o (IF param.x_ufile_copy_source = None THEN <<>>
        ELSE <<"x", "-", "u", "f", "i", "l", "e", "-", "c", "o", "p",
               "y", "-", "s", "o", "u", "r", "c", "e", ":">>
             \o param.x_ufile_copy_source[1] \o <<"\n">>)
    \o (IF param.x_ufile_copy_source_range = None THEN <<>>
        ELSE <<"x", "-", "u", "f", "i", "l", "e", "-", "c", "o", "p",
               "y", "-", "s", "o", "u", "r", "c", "e", "-", "r", "a",
               "n", "g", "e", ":">>
             \o param.x_ufile_copy_source_range[1] \o <<"\n">>)
    \o <<"/">> \o param.key_name

SignData(param) ==
    param.method \o <<"\n">>
    \o UnwrapOr(param.content_md5, <<>>) \o <<"\n">>
    \o UnwrapOr(param.content_type, <<>>) \o <<"\n">>
    \o UnwrapOr(param.date, <<>>) \o <<"\n">>
    \o (IF param.x_ufile_copy_source = None THEN <<>>
        ELSE <<"x", "-", "u", "f", "i", "l", "e", "-", "c", "o", "p",
               "y", "-", "s", "o", "u", "r", "c", "e", ":">>
             \o param.x_ufile_copy_source[1] \o <<"\n">>)
    \o (IF param.x_ufile_copy_source_range = None THEN <<>>
        ELSE <<"x", "-", "u", "f", "i", "l", "e", "-", "c", "o", "p",
               "y", "-", "s", "o", "u", "r", "c", "e", "-", "r", "a",
               "n", "g", "e", ":">>
             \o param.x_ufile_copy_source_range[1] \o <<"\n">>)
    \o <<"/">> \o param.bucket
    \o <<"/">> \o param.key_name

\* Mutant of Signature: the digest does not depend on the signed string.
SignatureOfKeyOnly(private_key, data) == [key |-> private_key, data |-> <<>>]

\* HmacSha1Signer::signature: base64 of HMAC-SHA1(private_key, data), kept as
\* the pair it is computed from (the digest is taken to be injective).
Signature(private_key, data) == [key |-> private_key, data |-> data]

\* format!("UCloud {}:{}", public_key, signature); the signature is one
\* element of the string.
Authorization(param, object_config) ==
    <<"U", "C", "l", "o", "u", "d", " ">> \o object_config.public_key \o <<":">>
    \o <<Signature(object_config.private_key, SignData(param))>>

\* Both requests are authorized.
Authorize ==
    /\ s_pc = "start"
    /\ s_header1' = Authorization(s_param1, s_config)
    /\ s_header2' = Authorization(s_param2, s_config)
    /\ s_pc' = "done"
    /\ UNCHANGED <<uvars, dvars, fvars, avars, mvars, pvars, ovars>>
    /\ UNCHANGED <<s_config, s_param1, s_param2>>

NextSign == Authorize

SpecSign == InitSign /\ [][NextSign]_vars

(***************************************************************************)
(* An InitMultipartState, returned by MultipartInitOperation::execute or   *)
(* built by the caller, and one operation run on it: part upload, Finish   *)
(* or Abort.                                                               *)
(***************************************************************************)
MimeTypes == {<<"t">>, <<"a", "/", "b">>, <<>>}

\* Sessions a caller can build or deserialize itself.
GivenStates ==
    [upload_id : UploadIds, bucket : {<<"b">>}, key_name : KeyNames,
     mime_type : {None, Some(<<"t">>), Some(<<>>)}]

\* Bodies of a 2xx Init answer that decode as InitMultipartState.
InitBodies ==
    [upload_id : UploadIds, bucket : {<<"b">>}, key_name : KeyNames,
     mime_type : {None, Some(<<"o">>)}]

\* Local::now() as the operations may read it.
SessionNows ==
    {[year |-> 2026, month |-> 11, day |-> 1, hour |-> 4, minute |-> 5, second |-> 9],
     [year |-> 1999, month |-> 12, day |-> 31, hour |-> 23, minute |-> 59, second |-> 59]}

\* Zero-padded decimal numbers, as chrono writes the fields of a date.
Pad2(n) == <<Digit(n \div 10), Digit(n % 10)>>

Pad4(n) ==
    <<Digit(n \div 1000), Digit((n \div 100) % 10), Digit((n \div 10) % 10),
      Digit(n % 10)>>

\* One strftime specifier of chrono's format().
StrftimeItem(c, now) ==
    CASE c = "Y" -> Pad4(now.year)
      [] c = "m" -> Pad2(now.month)
      [] c = "d" -> Pad2(now.day)
      [] c = "H" -> Pad2(now.hour)
      [] c = "M" -> Pad2(now.minute)
      [] c = "S" -> Pad2(now.second)
      [] OTHER -> <<"%", c>>

\* DateTime::format(fmt).to_string(): a specifier is % and a letter, any
\* other character is copied.
RECURSIVE Strftime(_, _)
Strftime(fmt, now) ==
    IF fmt = <<>> THEN <<>>
    ELSE IF Head(fmt) = "%" /\ Len(fmt) >= 2
         THEN StrftimeItem(fmt[2], now) \o Strftime(SubSeq(fmt, 3, Len(fmt)), now)
         ELSE <<Head(fmt)>> \o Strftime(Tail(fmt), now)

\* "%Y%m%d%H%M%S" of the part, Finish and Abort operations.
DateFormat == <<"%", "Y", "%", "m", "%", "d", "%", "H", "%", "M", "%", "S">>

\* "&Y%m%d%H%M%S" of the Init operation.
InitDateFormat == <<"&", "Y", "%", "m", "%", "d", "%", "H", "%", "M", "%", "S">>

\* Content-MD5 of a part: Some(hex digest) when is_verify_md5, else None.
ContentMd5s == {None, Some(<<"5">>)}

\* ObjectOptAuthParam as the operation builds it for AuthorizationService.
ObjectOptAuthParam(method, bucket, key_name, content_type, date, content_md5) ==
    [method |-> method, bucket |-> bucket, key_name |-> key_name,
     content_type |-> content_type, date |-> date, content_md5 |-> content_md5]

\* A request as sent: the client call (post, put, delete), the arguments of
\* generate_final_host, the headers inserted, and what was signed for its
\* Authorization header.
SessionRequest(operation, method, upload_id, url_bucket, url_key, headers, auth) ==
    [op |-> operation, method |-> method, upload_id |-> upload_id,
     url_bucket |-> url_bucket, url_key |-> url_key, headers |-> headers,
     signed |-> auth]

\* MultipartInitOperation::execute, lines 63-102.
InitOperationRequest(bucket_name, key_name, mime_type, now) ==
    LET date == Strftime(InitDateFormat, now)
    IN SessionRequest("init", "POST", <<>>, bucket_name, key_name,
           [content_type |-> mime_type, date |-> date, content_md5 |-> None],
           ObjectOptAuthParam("POST", bucket_name, key_name, Some(mime_type),
                              Some(date), None))

\* Mutant of PartOperationRequest: the Content-MD5 sent is left out of what
\* is signed.
PartOperationRequestUnsignedMd5(state, mime_type, now, content_md5) ==
    LET date == Strftime(DateFormat, now)
    IN SessionRequest("part", "PUT", state.upload_id, state.bucket, state.key_name,
           [content_type |-> mime_type, date |-> date,
            content_md5 |-> content_md5],
           ObjectOptAuthParam("PUT", state.bucket, state.key_name,
                              Some(mime_type), Some(date), None))

\* MultipartFileOperation::execute, lines 57-109.
PartOperationRequest(state, mime_type, now, content_md5) ==
    LET date == Strftime(DateFormat, now)
    IN SessionRequest("part", "PUT", state.upload_id, state.bucket, state.key_name,
           [content_type |-> mime_type, date |-> date,
            content_md5 |-> content_md5],
           ObjectOptAuthParam("PUT", state.bucket, state.key_name,
                              Some(mime_type), Some(date), content_md5))

\* MultipartFinishOperation::execute, lines 93-128.
FinishOperationRequest(state, mime_type, now) ==
    LET date == Strftime(DateFormat, now)
    IN SessionRequest("finish", "POST", state.upload_id, state.bucket,
           state.key_name,
           [content_type |-> mime_type, date |-> date, content_md5 |-> None],
           ObjectOptAuthParam("POST", state.bucket, state.key_name,
                              Some(mime_type), Some(date), None))

\* MultipartAbortOperation::execute, lines 57-81.
AbortOperationRequest(state, mime_type, now) ==
    LET date == Strftime(DateFormat, now)
    IN SessionRequest("abort", "DELETE", state.upload_id, state.bucket,
           state.key_name,
           [content_type |-> mime_type, date |-> date, content_md5 |-> None],
           ObjectOptAuthParam("DELETE", state.bucket, state.key_name,
                              Some(mime_type), Some(date), None))

InitSession ==
    /\ m_pc = "start"
    /\ m_mime \in MimeTypes
    /\ m_init_response = None
    /\ m_from_init = FALSE
    /\ m_state = None
    /\ m_op = "none"
    /\ m_requests = EmptyBag
    /\ m_result = NoResult
    /\ UploadIdle
    /\ DownloadIdle
    /\ FinishIdle
    /\ AbortIdle
    /\ SignIdle
    /\ PrivateUrlIdle
    /\ PoolIdle

\* The caller brings a session of its own (InitMultipartState is a public,
\* deserializable struct) instead of running Init.
SessionGiven ==
    /\ m_pc = "start"
    /\ \E st \in GivenStates : m_state' = Some(st)
    /\ m_pc' = "session"
    /\ UNCHANGED <<uvars, dvars, fvars, avars, svars, pvars, ovars>>
    /\ UNCHANGED <<m_mime, m_init_response, m_from_init, m_op, m_requests,
                   m_result>>

\* MultipartInitOperation::execute up to send().
SessionInitSend ==
    /\ m_pc = "start"
    /\ \E key_name \in KeyNames, now \in SessionNows :
          m_requests' = Send(m_requests,
                             InitOperationRequest(<<"b">>, key_name, m_mime, now))
    /\ m_op' = "init"
    /\ m_pc' = "init_sent"
    /\ UNCHANGED <<uvars, dvars, fvars, avars, svars, pvars, ovars>>
    /\ UNCHANGED <<m_mime, m_init_response, m_from_init, m_state, m_result>>

\* Transport error, non-2xx status, or a 2xx body that does not decode.
SessionInitErr ==
    /\ m_pc = "init_sent"
    /\ \E kind \in {"transport", "status", "json"} :
          m_result' = ErrResult(kind, 0)
    /\ m_pc' = "done"
    /\ UNCHANGED <<uvars, dvars, fvars, avars, svars, pvars, ovars>>
    /\ UNCHANGED <<m_mime, m_init_response, m_from_init, m_state, m_op,
                   m_requests>>

\* Mutant of BackfilledMime: a mime type in the answer is kept.
BackfilledMimeKeepingBody(body_mime, requested) ==
    IF body_mime = None THEN Some(requested) ELSE body_mime

\* resp.mime_type.replace(mime_type.clone()): Some(requested), whatever was there.
BackfilledMime(body_mime, requested) == Some(requested)

\* A 2xx answer that decodes: the session is returned with its mime type set.
SessionInitOk ==
    /\ m_pc = "init_sent"
    /\ \E body \in InitBodies :
          /\ m_init_response' = Some(body)
          /\ m_state' = Some([upload_id |-> body.upload_id,
                               bucket |-> body.bucket,
                               key_name |-> body.key_name,
                               mime_type |-> BackfilledMime(body.mime_type, m_mime)])
    /\ m_from_init' = TRUE
    /\ m_result' = OkResult
    /\ m_pc' = "session"
    /\ UNCHANGED <<uvars, dvars, fvars, avars, svars, pvars, ovars>>
    /\ UNCHANGED <<m_mime, m_op, m_requests>>

\* MultipartFileOperation::execute: state.mime_type is None.
PartRefuse ==
    /\ m_pc = "session"
    /\ m_state[1].mime_type = None
    /\ m_op' = "part"
    /\ m_result' = ErrResult("mime", 0)
    /\ m_pc' = "done"
    /\ UNCHANGED <<uvars, dvars, fvars, avars, svars, pvars, ovars>>
    /\ UNCHANGED <<m_mime, m_init_response, m_from_init, m_state, m_requests>>

\* MultipartFileOperation::execute with a mime type: the PUT is sent.
PartSend ==
    /\ m_pc = "session"
    /\ m_state[1].mime_type # None
    /\ m_op' = "part"
    /\ \E now \in SessionNows, content_md5 \in ContentMd5s :
          m_requests' = Send(m_requests,
                             PartOperationRequest(m_state[1], m_state[1].mime_type[1],
                                                  now, content_md5))
    /\ m_pc' = "sent"
    /\ UNCHANGED <<uvars, dvars, fvars, avars, svars, pvars, ovars>>
    /\ UNCHANGED <<m_mime, m_init_response, m_from_init, m_state, m_result>>

\* Mutant of FinishRefuse: the mime type is looked at after the POST is sent.
FinishRefuseAfterSend ==
    /\ m_pc = "session"
    /\ m_state[1].mime_type = None
    /\ m_op' = "finish"
    /\ \E now \in SessionNows :
          m_requests' = Send(m_requests,
                             FinishOperationRequest(m_state[1], <<>>, now))
    /\ m_result' = ErrResult("mime", 0)
    /\ m_pc' = "done"
    /\ UNCHANGED <<uvars, dvars, fvars, avars, svars, pvars, ovars>>
    /\ UNCHANGED <<m_mime, m_init_response, m_from_init, m_state>>

\* MultipartFinishOperation::execute: state.mime_type is None.
FinishRefuse ==
    /\ m_pc = "session"
    /\ m_state[1].mime_type = None
    /\ m_op' = "finish"
    /\ m_result' = ErrResult("mime", 0)
    /\ m_pc' = "done"
    /\ UNCHANGED <<uvars, dvars, fvars, avars, svars, pvars, ovars>>
    /\ UNCHANGED <<m_mime, m_init_response, m_from_init, m_state, m_requests>>

\* MultipartFinishOperation::execute with a mime type: the POST is sent.
FinishSend ==
    /\ m_pc = "session"
    /\ m_state[1].mime_type # None
    /\ m_op' = "finish"
    /\ \E now \in SessionNows :
          m_requests' = Send(m_requests,
                             FinishOperationRequest(m_state[1],
                                                    m_state[1].mime_type[1], now))
    /\ m_pc' = "sent"
    /\ UNCHANGED <<uvars, dvars, fvars, avars, svars, pvars, ovars>>
    /\ UNCHANGED <<m_mime, m_init_response, m_from_init, m_state, m_result>>

\* MultipartAbortOperation::execute: state.mime_type is None.
SessionAbortRefuse ==
    /\ m_pc = "session"
    /\ m_state[1].mime_type = None
    /\ m_op' = "abort"
    /\ m_result' = ErrResult("mime", 0)
    /\ m_pc' = "done"
    /\ UNCHANGED <<uvars, dvars, fvars, avars, svars, pvars, ovars>>
    /\ UNCHANGED <<m_mime, m_init_response, m_from_init, m_state, m_requests>>

\* MultipartAbortOperation::execute with a mime type: the DELETE is sent.
SessionAbortSend ==
    /\ m_pc = "session"
    /\ m_state[1].mime_type # None
    /\ m_op' = "abort"
    /\ \E now \in SessionNows :
          m_requests' = Send(m_requests,
                             AbortOperationRequest(m_state[1],
                                                   m_state[1].mime_type[1], now))
    /\ m_pc' = "sent"
    /\ UNCHANGED <<uvars, dvars, fvars, avars, svars, pvars, ovars>>
    /\ UNCHANGED <<m_mime, m_init_response, m_from_init, m_state, m_result>>

\* The operation's request resolves: Ok, or one of its errors.
SessionResponse ==
    /\ m_pc = "sent"
    /\ \E r \in {OkResult} \cup {ErrResult(kind, 0) :
                                    kind \in {"transport", "status", "json"}} :
          m_result' = r
    /\ m_pc' = "done"
    /\ UNCHANGED <<uvars, dvars, fvars, avars, svars, pvars, ovars>>
    /\ UNCHANGED <<m_mime, m_init_response, m_from_init, m_state, m_op,
                   m_requests>>

NextSession ==
    \/ SessionGiven
    \/ SessionInitSend
    \/ SessionInitErr
    \/ SessionInitOk
    \/ PartRefuse
    \/ PartSend
    \/ FinishRefuse
    \/ FinishSend
    \/ SessionAbortRefuse
    \/ SessionAbortSend
    \/ SessionResponse

SpecSession == InitSession /\ [][NextSession]_vars

(***************************************************************************)
(* ObjectConfig::authorization_private_url, called directly or by          *)
(* GenPrivateUrlOperation::execute.                                        *)
(***************************************************************************)
Digits == {"0", "1", "2", "3", "4", "5", "6", "7", "8", "9"}

DigitValue(c) == CHOOSE n \in 0..9 : Digit(n) = c

\* u64::to_string
RECURSIVE U64ToString(_)
U64ToString(n) ==
    IF n < 10 THEN <<Digit(n)>> ELSE Append(U64ToString(n \div 10), Digit(n % 10))

RECURSIVE DigitsValue(_)
DigitsValue(str) ==
    IF str = <<>> THEN 0
    ELSE DigitsValue(SubSeq(str, 1, Len(str) - 1)) * 10 + DigitValue(str[Len(str)])

\* str::parse::<u64>: an optional "+", then one digit or more (the strings
\* here are far too short to overflow).
ParseU64(str) ==
    LET body == IF str # <<>> /\ Head(str) = "+" THEN Tail(str) ELSE str
    IN IF body = <<>> \/ \E i \in 1..Len(body) : body[i] \notin Digits
       THEN [ok |-> FALSE, value |-> 0]
       ELSE [ok |-> TRUE, value |-> DigitsValue(body)]

PrivateUrlConfigs ==
    [custom_host : {None}, proxy_suffix : {Some(<<"u">>)}, region : {<<"c", "n">>},
     protocol : {<<"h", "t", "t", "p", "s">>},
     public_key : {<<"p", "u", "b">>}, private_key : {<<"x">>, <<"y">>}]

ExpiresStrings ==
    {<<"0">>, <<"0", "0">>, <<"+", "0">>, <<>>, <<"x">>, <<"6", "0">>, <<"1", "x">>}

\* Arguments a caller can hand to authorization_private_url.
PrivateUrlCalls ==
    [method : Methods,
     bucket_name : {<<>>} \cup BucketNames,
     key_name : {<<>>} \cup KeyNames,
     expires : ExpiresStrings]

\* GenPrivateUrlRequest: expires is a number of seconds from now.
GenPrivateUrlRequests ==
    [bucket_name : {<<>>} \cup BucketNames,
     key_name : {<<>>} \cup KeyNames,
     expires : {0, 1, 60}]

\* SystemTime::now().duration_since(UNIX_EPOCH)?.as_secs()
Nows == {1, 1000}

InitPrivateUrl ==
    /\ p_pc = "start"
    /\ p_config \in PrivateUrlConfigs
    /\ p_req = None
    /\ p_now = 0
    /\ p_call = None
    /\ p_signature = NoResult
    /\ p_result = NoResult
    /\ UploadIdle
    /\ DownloadIdle
    /\ FinishIdle
    /\ AbortIdle
    /\ SignIdle
    /\ SessionIdle
    /\ PoolIdle

\* GenPrivateUrlOperation::execute up to the call: expire_time is
\* (expires + now).to_string(), the method is GET.
GenPrivateUrlStart ==
    /\ p_pc = "start"
    /\ \E req \in GenPrivateUrlRequests, now \in Nows :
          /\ p_req' = Some(req)
          /\ p_now' = now
          /\ p_call' = Some([method |-> <<"G", "E", "T">>,
                              bucket_name |-> req.bucket_name,
                              key_name |-> req.key_name,
                              expires |-> U64ToString(req.expires + now)])
    /\ p_pc' = "signing"
    /\ UNCHANGED <<uvars, dvars, fvars, avars, svars, mvars, ovars>>
    /\ UNCHANGED <<p_config, p_signature, p_result>>

\* A direct call of the public method authorization_private_url.
PrivateUrlCall ==
    /\ p_pc = "start"
    /\ \E call \in PrivateUrlCalls : p_call' = Some(call)
    /\ p_pc' = "signing"
    /\ UNCHANGED <<uvars, dvars, fvars, avars, svars, mvars, ovars>>
    /\ UNCHANGED <<p_config, p_req, p_now, p_signature, p_result>>

\* Mutant of PrivateUrlSignData: the bucket and the key on lines of their own.
PrivateUrlSignDataKeyOnOwnLine(call) ==
    call.method \o <<"\n">> \o <<>> \o <<"\n">> \o <<>> \o <<"\n">>
    \o call.expires \o <<"\n">>
    \o <<"/">> \o call.bucket_name \o <<"\n">> \o <<"/">> \o call.key_name

\* format!("{}\n{}\n{}\n{}\n/{}/{}", method, "", "", expires, bucket, key)
PrivateUrlSignData(call) ==
    call.method \o <<"\n">> \o <<>> \o <<"\n">> \o <<>> \o <<"\n">>
    \o call.expires \o <<"\n">>
    \o <<"/">> \o call.bucket_name \o <<"/">> \o call.key_name

\* Ok(signature)
SignatureResult(sig) == [ok |-> TRUE, err |-> "none", at |-> 0, signature |-> sig]

\* Mutant of AuthorizationPrivateUrl: an expiry of zero is signed like any other.
AuthorizationPrivateUrlSigningZero(cfg, call) ==
    IF call.bucket_name = <<>> THEN ErrResult("bucket", 0)
    ELSE IF call.key_name = <<>> THEN ErrResult("key", 0)
    ELSE IF ~ParseU64(call.expires).ok THEN ErrResult("parse", 0)
    ELSE SignatureResult(Signature(cfg.private_key, PrivateUrlSignData(call)))

\* authorization_private_url (object.rs lines 152-182).
AuthorizationPrivateUrl(cfg, call) ==
    IF call.bucket_name = <<>> THEN ErrResult("bucket", 0)
    ELSE IF call.key_name = <<>> THEN ErrResult("key", 0)
    ELSE IF ~ParseU64(call.expires).ok THEN ErrResult("parse", 0)
    ELSE IF ParseU64(call.expires).value = 0 THEN ErrResult("zero", 0)
    ELSE SignatureResult(Signature(cfg.private_key, PrivateUrlSignData(call)))

\* The call returns; a direct call ends here.
PrivateUrlSign ==
    /\ p_pc = "signing"
    /\ p_signature' = AuthorizationPrivateUrl(p_config, p_call[1])
    /\ p_pc' = IF p_req = None THEN "done" ELSE "signed"
    /\ UNCHANGED <<uvars, dvars, fvars, avars, svars, mvars, ovars>>
    /\ UNCHANGED <<p_config, p_req, p_now, p_call, p_result>>

\* The url of GenPrivateUrlOperation: host, then the three query values,
\* each url-encoded (no attachment name, token or iop command).
PrivateUrl(cfg, req, sig, expire_time) ==
    [host |-> GenerateFinalHost(cfg, req.bucket_name, req.key_name),
     UCloudPublicKey |-> UrlEncode(cfg.public_key),
     Signature |-> sig,
     Expires |-> UrlEncode(expire_time)]

\* Rest of GenPrivateUrlOperation::execute: `?` on the signature, then the url.
GenPrivateUrlFinish ==
    /\ p_pc = "signed"
    /\ p_result' = IF p_signature.ok
                   THEN [ok |-> TRUE, err |-> "none", at |-> 0,
                         url |-> PrivateUrl(p_config, p_req[1],
                                            p_signature.signature,
                                            p_call[1].expires)]
                   ELSE p_signature
    /\ p_pc' = "done"
    /\ UNCHANGED <<uvars, dvars, fvars, avars, svars, mvars, ovars>>
    /\ UNCHANGED <<p_config, p_req, p_now, p_call, p_signature>>

NextPrivateUrl ==
    \/ GenPrivateUrlStart
    \/ PrivateUrlCall
    \/ PrivateUrlSign
    \/ GenPrivateUrlFinish

SpecPrivateUrl == InitPrivateUrl /\ [][NextPrivateUrl]_vars

(***************************************************************************)
(* ObjectPool (src/src/util/pool.rs): get() and the drop of PooledObject,  *)
(* each under the pool's mutex, called from any number of threads.         *)
(***************************************************************************)
MaxCreated == 4

\* `if pool.len() < 10` in PooledObject::drop
PoolDropLimit == 10

\* ObjectPool::new(creator, max_size)
InitPool ==
    /\ o_max_size \in 0..MaxCreated
    /\ o_objects = <<>>
    /\ o_held = {}
    /\ o_created = 0
    /\ o_last = None
    /\ UploadIdle
    /\ DownloadIdle
    /\ FinishIdle
    /\ AbortIdle
    /\ SignIdle
    /\ SessionIdle
    /\ PrivateUrlIdle

\* get(): objects.pop_front(), an idle object is handed out.
PoolGetIdle ==
    /\ o_objects # <<>>
    /\ o_held' = o_held \cup {Head(o_objects)}
    /\ o_objects' = Tail(o_objects)
    /\ o_last' = Some([idle |-> Len(o_objects), object |-> Head(o_objects),
                        fresh |-> FALSE])
    /\ UNCHANGED <<uvars, dvars, fvars, avars, svars, mvars, pvars>>
    /\ UNCHANGED <<o_max_size, o_created>>

\* get(): the pool is empty, unwrap_or_else calls creator.
PoolGetCreate ==
    /\ o_objects = <<>>
    /\ o_created < MaxCreated
    /\ o_created' = o_created + 1
    /\ o_held' = o_held \cup {o_created + 1}
    /\ o_last' = Some([idle |-> 0, object |-> o_created + 1, fresh |-> TRUE])
    /\ UNCHANGED <<uvars, dvars, fvars, avars, svars, mvars, pvars>>
    /\ UNCHANGED <<o_max_size, o_objects>>

\* drop of a PooledObject: the object goes back unless 10 are idle already.
PoolDrop(object) ==
    /\ object \in o_held
    /\ o_held' = o_held \ {object}
    /\ o_objects' = IF Len(o_objects) < PoolDropLimit
                    THEN Append(o_objects, object)
                    ELSE o_objects
    /\ UNCHANGED <<uvars, dvars, fvars, avars, svars, mvars, pvars>>
    /\ UNCHANGED <<o_max_size, o_created, o_last>>

NextPool ==
    \/ PoolGetIdle
    \/ PoolGetCreate
    \/ \E object \in 1..MaxCreated : PoolDrop(object)

SpecPool == InitPool /\ [][NextPool]_vars

(***************************************************************************)
(* Claims.                                                                 *)
(***************************************************************************)
IsPut(r) == r.method = "PUT"
IsFinish(r) == r.method = "POST" /\ r.query = "uploadId&newKey"
IsAbort(r) == r.method = "DELETE"

PutSent == \E r \in BagToSet(requests) : IsPut(r)
FinishSent == \E r \in BagToSet(requests) : IsFinish(r)

\* Part tasks that hold a permit: reading their chunk or with their PUT in flight.
InFlight == {t \in 1..Len(tasks) : tasks[t].pc \in {"acquired", "put"}}

\* C1: during CombinatedMultipartPutApi.execute, at every point the number of
\* part tasks that have acquired a permit and not yet released it is at most
\* the configured `concurrency`.
C1_InFlightAtMostConcurrency ==
    pc # "idle" => Cardinality(InFlight) <= concurrency

\* Range tasks between acquiring their permit and finishing.
RangesInFlight ==
    {t \in 1..Len(d_tasks) : d_tasks[t].pc \in {"get", "body", "lock", "seek", "write"}}

RECURSIVE SplitOnComma(_)
SplitOnComma(str) ==
    IF \A k \in 1..Len(str) : str[k] # ","
    THEN <<str>>
    ELSE LET k == CHOOSE j \in 1..Len(str) :
                      str[j] = "," /\ \A h \in 1..(j - 1) : str[h] # ","
         IN <<SubSeq(str, 1, k - 1)>> \o SplitOnComma(SubSeq(str, k + 1, Len(str)))

IndexPermutations(n) ==
    {p \in [1..n -> 1..n] : \A a, b \in 1..n : a # b => p[a] # p[b]}

\* C3: for every list of part states handed to Finish, in any order, the POST
\* body is the ETags of all those parts joined by ',' in ascending part_number
\* order, exactly one ETag per part state.
C3_FinishBodySortedEtags ==
    f_pc = "sent" =>
        LET n == Len(f_part_states)
            elems == SplitOnComma(f_body)
        IN IF n = 0 THEN f_body = <<>>
           ELSE /\ Len(elems) = n
                /\ \E p \in IndexPermutations(n) :
                      /\ \A k \in 1..n : elems[k] = f_part_states[p[k]].etag
                      /\ \A k \in 1..(n - 1) :
                            f_part_states[p[k]].part_number
                                <= f_part_states[p[k + 1]].part_number

\* C3 witness: Finish has built the body of a list handed over out of order,
\* whose parts carry different ETags.
C3_Witness ==
    /\ f_pc = "sent"
    /\ Len(f_part_states) = 3
    /\ f_part_states[1].part_number > f_part_states[2].part_number
    /\ f_part_states[2].part_number > f_part_states[3].part_number
    /\ f_part_states[1].etag # f_part_states[3].etag
    /\ f_part_states[1].etag # <<>>
    /\ f_part_states[3].etag # <<>>

\* C4: for file_size >= 1 and blk_size >= 1 execute spawns exactly
\* ceil(file_size / blk_size) part tasks; part i reads at offset i * blk_size a
\* length of min(blk_size, file_size - i * blk_size): the intervals are
\* contiguous, disjoint and cover exactly [0, file_size).
C4_UploadSplitCoversFile ==
    (pc \in {"joining", "finish_sent", "done"} /\ file_size >= 1 /\ blk_size >= 1) =>
        LET n == Len(tasks)
        IN /\ (n - 1) * blk_size < file_size
           /\ file_size <= n * blk_size
           /\ \A t \in 1..n :
                 /\ tasks[t].index = t - 1
                 /\ tasks[t].buffer_size >= 1
                 /\ tasks[t].buffer_size
                        = (IF blk_size < file_size - (t - 1) * blk_size
                           THEN blk_size ELSE file_size - (t - 1) * blk_size)
                 /\ tasks[t].pc \in {"put", "done"} =>
                        tasks[t].offset = (t - 1) * blk_size
                 /\ \A r \in BagToSet(requests) :
                        (IsPut(r) /\ r.partNumber = t - 1) =>
                            /\ r.offset = (t - 1) * blk_size
                            /\ r.length = tasks[t].buffer_size
           /\ \A t \in 1..(n - 1) :
                 (t - 1) * blk_size + tasks[t].buffer_size = t * blk_size
           /\ (n - 1) * blk_size + tasks[n].buffer_size = file_size

\* C4 witness: every part of a file that is not a multiple of the block size
\* has been read and sent, the last one shorter than a block.
C4_Witness ==
    /\ pc = "joining"
    /\ file_size = 5
    /\ blk_size = 2
    /\ Len(tasks) = 3
    /\ \A t \in 1..Len(tasks) : tasks[t].pc = "put"
    /\ tasks[3].buffer_size = 1

\* C5: for every content_length >= 1 the download computes exactly
\* ceil(content_length / MULTIPART_SIZE) ranges, range i being
\* [i * MULTIPART_SIZE, min((i + 1) * MULTIPART_SIZE, content_length)) with
\* start < end, contiguous and covering exactly [0, content_length).
C5_DownloadSplitCoversObject ==
    (d_pc \in {"spawning", "joining", "done"} /\ content_length >= 1) =>
        LET n == Len(d_ranges)
        IN /\ (n - 1) * MULTIPART_SIZE < content_length
           /\ content_length <= n * MULTIPART_SIZE
           /\ \A k \in 1..n :
                 /\ d_ranges[k].start = (k - 1) * MULTIPART_SIZE
                 /\ d_ranges[k].end = Min(k * MULTIPART_SIZE, content_length)
                 /\ d_ranges[k].start < d_ranges[k].end
           /\ \A k \in 1..(n - 1) : d_ranges[k].end = d_ranges[k + 1].start
           /\ d_ranges[n].end = content_length

\* C6: if at least one part task fails, execute returns Err and no Finish
\* request is ever issued, even though other parts completed successfully.
C6_FailedPartNoFinish ==
    (\E t \in 1..Len(tasks) : tasks[t].pc = "done" /\ ~tasks[t].ok) =>
        /\ ~FinishSent
        /\ pc # "finish_sent"
        /\ pc = "done" => (~result.ok /\ result.err # "none")

\* C6 witness: execute has returned while one part failed and another part
\* was uploaded successfully.
C6_Witness ==
    /\ pc = "done"
    /\ \E t \in 1..Len(tasks) : tasks[t].pc = "done" /\ ~tasks[t].ok
    /\ \E t \in 1..Len(tasks) : tasks[t].pc = "done" /\ tasks[t].ok

\* C7: a failing part does not cancel its siblings: the error is returned to
\* the caller only after all N spawned part tasks have resolved.
C7_ErrorAfterAllPartsResolved ==
    (pc = "done" /\ blk_size >= 1) =>
        /\ Len(tasks) = part_count
        /\ \A t \in 1..Len(tasks) : tasks[t].pc = "done"
        /\ \A t \in 1..Len(tasks) :
              tasks[t].ok \/ tasks[t].err \in {"read", "build", "transport", "status", "json"}

\* C7 witness: the error of the first part is returned after a later part,
\* which was still to run when the first one failed, resolved successfully.
C7_Witness ==
    /\ pc = "done"
    /\ ~result.ok
    /\ result.at = 0
    /\ Len(tasks) >= 3
    /\ \A t \in 2..Len(tasks) : tasks[t].pc = "done" /\ tasks[t].ok

\* C8: when a range task fails, the error is returned only after every
\* spawned range task has resolved: once execute has returned no range task
\* still has a GET in flight or seeks/writes the destination file.
C8_NoRangeTaskAfterReturn ==
    d_pc = "done" => \A t \in 1..Len(d_tasks) : d_tasks[t].pc = "done"

\* C9: CombinatedMultipartPutApi.execute never issues an Abort request
\* (DELETE ...?uploadId=), in particular not after a part upload or the Finish
\* request has failed.
C9_NeverAborts ==
    pc # "idle" => \A r \in BagToSet(requests) : ~IsAbort(r)

\* C9 witness: execute has returned the error of a failed part upload, the
\* session being open on the server.
C9_Witness ==
    /\ pc = "done"
    /\ ~result.ok
    /\ PutSent
    /\ \E t \in 1..Len(tasks) : tasks[t].err \in {"transport", "status"}

\* C10: the requests are ordered: a part PUT is sent only after the successful
\* Init response, the Finish POST only after every part PUT has resolved
\* successfully, and no request is sent after the Finish request.
C10_RequestOrder ==
    [][/\ (requests' # requests /\ \E r \in BagToSet(requests') : IsPut(r)
              /\ CopiesIn(r, requests') > CopiesIn(r, requests))
          => (pc \in {"spawning", "joining"} /\ blk_size >= 1 /\ ~FinishSent)
       /\ (~FinishSent /\ FinishSent')
          => /\ Len(tasks) = part_count
             /\ \A t \in 1..Len(tasks) : tasks[t].pc = "done" /\ tasks[t].ok
             /\ \A t \in 1..Len(tasks) :
                   \E r \in BagToSet(requests) : IsPut(r) /\ r.partNumber = t - 1
       /\ FinishSent => requests' = requests]_vars

\* C10 witness: the upload has committed: Init, three part PUTs and Finish.
C10_Witness ==
    /\ pc = "done"
    /\ result.ok
    /\ Len(tasks) = 3
    /\ FinishSent

\* An error put into a range task from outside the protocol: a broken
\* connection, a server error, a failing local seek or write.
InjectedFault(t) ==
    \/ d_tasks[t].err \in {"transport", "body", "seek", "write"}
    \/ d_tasks[t].status = 500

\* End of the destination file: the furthest byte any write reached.
FileLength ==
    IF d_written = {} THEN 0
    ELSE LET ends == {w.off + w.len : w \in d_written}
         IN CHOOSE e \in ends : \A x \in ends : x <= e

\* The destination file holds the object's bytes 0..total-1 and nothing else:
\* every write put object bytes at their own offsets, the writes leave no gap,
\* and the file ends where the object ends.
DestinationIsObject(total) ==
    /\ \A w \in d_written : w.off = w.obj
    /\ \A p \in {0} \cup {w.off + w.len : w \in d_written} :
          p < total => \E w \in d_written : w.off <= p /\ p < w.off + w.len
    /\ FileLength = total

\* C11: when an upload whose requests all succeeded is followed by a download
\* from a service that honours Range, with nothing failing from outside and
\* the destination free to be written, the download returns Ok and the
\* destination file is byte-identical to the uploaded file.
C11_RoundTrip ==
    (/\ pc = "done" /\ result.ok
     /\ d_pc = "done"
     /\ ~(d_exists /\ ~d_overwrite)
     /\ \A t \in 1..Len(d_tasks) : ~InjectedFault(t))
    => /\ d_result.ok
       /\ ObjectIsFile
       /\ DestinationIsObject(file_size)

\* The write a range task does when it succeeds.
WriteOf(t) == [off |-> d_tasks[t].start, obj |-> d_tasks[t].obj, len |-> d_tasks[t].len]

GetFailed(t) ==
    d_tasks[t].pc = "done" /\ d_tasks[t].err \in {"transport", "status"}

\* C12: once execute has returned, a range whose GET failed (transport error or
\* non-2xx status) means the result is Err; and the result is Ok only if every
\* range was fetched with a 2xx status and written to the file.
C12_OkOnlyIfEveryRangeWritten ==
    d_pc = "done" =>
        /\ (\E t \in 1..Len(d_tasks) : GetFailed(t)) => ~d_result.ok
        /\ d_result.ok =>
              /\ Len(d_tasks) = Len(d_ranges)
              /\ \A t \in 1..Len(d_tasks) :
                    /\ d_tasks[t].pc = "done" /\ d_tasks[t].ok
                    /\ IsSuccess(d_tasks[t].status)
                    /\ WriteOf(t) \in d_written

\* A download of several ranges that returned Err because a GET failed while
\* another range was fetched and written.
C12_Witness ==
    /\ d_pc = "done" /\ ~d_result.ok
    /\ d_result.err \in {"transport", "status"}
    /\ \E t \in 1..Len(d_tasks) : GetFailed(t)
    /\ \E t \in 1..Len(d_tasks) : d_tasks[t].ok /\ WriteOf(t) \in d_written

\* C13: once the destination file has been created, no step of the download,
\* a failing one included, deletes or truncates it: the file stays and every
\* write already done stays at its offset.
C13_FileKeptOnFailure ==
    [][d_file = "created" =>
          d_file' = "created" /\ d_written \subseteq d_written']_vars

\* A failed download whose destination holds what a succeeding range wrote.
C13_Witness ==
    /\ d_pc = "done" /\ ~d_result.ok
    /\ d_file = "created"
    /\ \E w \in d_written : w.len > 0

\* C14: when the Init request fails (a non-2xx answer included), execute
\* returns Err, no upload session exists (no block size, no part task), and
\* from then on the only request ever sent is the one Init request: no part
\* PUT, no Finish, no Abort.
C14_InitFailureSendsNothingElse ==
    [][((pc = "init_sent" /\ pc' = "done") \/ (pc = "done" /\ blk_size = 0)) =>
          /\ ~result'.ok
          /\ blk_size' = 0 /\ tasks' = <<>>
          /\ BagToSet(requests') = {InitRequest}
          /\ CopiesIn(InitRequest, requests') = 1]_vars

\* The upload has returned the Err of an Init answered with a non-2xx status.
C14_Witness ==
    /\ pc = "done" /\ ~result.ok /\ result.err = "status"
    /\ blk_size = 0 /\ tasks = <<>>
    /\ BagToSet(requests) = {InitRequest}

\* C16: nothing is sent twice, whatever was answered: each request of an
\* upload (Init, the PUT of a part number, Finish) and each range GET of a
\* download is sent at most once.
C16_NoRetries ==
    /\ \A r \in BagToSet(requests) : CopiesIn(r, requests) = 1
    /\ \A r1, r2 \in BagToSet(requests) :
          \/ r1 = r2
          \/ r1.method # r2.method
          \/ r1.query # r2.query
          \/ IsPut(r1) /\ IsPut(r2) /\ r1.partNumber # r2.partNumber
    /\ \A r \in BagToSet(d_requests) : CopiesIn(r, d_requests) = 1
    /\ \A r1, r2 \in BagToSet(d_requests) : r1 = r2 \/ r1.start # r2.start
    /\ BagCardinality(d_requests) <= Len(d_ranges)

\* After an upload that sent Init, its part PUTs and Finish, a download has
\* returned the Err of a range GET that failed and was sent once.
C16_Witness ==
    /\ pc = "done" /\ result.ok /\ PutSent /\ FinishSent
    /\ d_pc = "done" /\ ~d_result.ok
    /\ \E t \in 1..Len(d_tasks) :
          GetFailed(t) /\ CopiesIn(RangeRequest(d_tasks[t]), d_requests) = 1

\* Part numbers sent so far, and the PUTs sent under one part number.
PartNumbersSent == {r.partNumber : r \in {x \in BagToSet(requests) : IsPut(x)}}

\* C17 as stated: the part numbers sent are 1-based: each is in 1..N and
\* carries the bytes starting at (n-1)*blk_size, and a successful upload has
\* sent exactly 1..N.
C17_PartNumbersOneBased ==
    /\ \A r \in BagToSet(requests) :
          IsPut(r) => /\ r.partNumber \in 1..part_count
                      /\ r.offset = (r.partNumber - 1) * blk_size
    /\ (pc = "done" /\ result.ok) => PartNumbersSent = 1..part_count

\* C17 amended: the part numbers sent are 0-based, contiguous and in split
\* order: the k-th part of the split is sent as part number k-1, each number
\* n is in 0..N-1 and carries the bytes starting at n*blk_size, and a
\* successful upload has sent exactly 0..N-1.
C17_PartNumbersZeroBased ==
    /\ \A r \in BagToSet(requests) :
          IsPut(r) => /\ r.partNumber \in 0..(part_count - 1)
                      /\ r.offset = r.partNumber * blk_size
    /\ \A t \in 1..Len(tasks) :
          (tasks[t].pc = "put" \/ tasks[t].ok) =>
              \E r \in BagToSet(requests) :
                  /\ IsPut(r) /\ r.partNumber = t - 1
                  /\ r.offset = (t - 1) * blk_size
                  /\ r.length = tasks[t].buffer_size
    /\ (pc = "done" /\ result.ok) => PartNumbersSent = 0..(part_count - 1)

\* A successful upload of at least two parts.
C17_Witness ==
    /\ pc = "done" /\ result.ok
    /\ part_count >= 2
    /\ PartNumbersSent = 0..(part_count - 1)

\* C15: for a session whose mime type is set, Abort sends one DELETE to
\* {host(bucket,key)}?uploadId={upload_id} and nothing else, and what it
\* returns is Ok exactly when a response came and its status is 2xx.
C15_AbortOneDelete ==
    (a_pc # "idle" /\ a_state.mime_type # None) =>
        LET host == GenerateFinalHost(a_config, a_state.bucket, a_state.key_name)
            req == [method |-> "DELETE",
                    url |-> host \o <<"?", "u", "p", "l", "o", "a", "d", "I", "d", "=">>
                                 \o a_state.upload_id]
        IN /\ a_pc = "start" => a_requests = EmptyBag
           /\ a_pc # "start" =>
                 BagToSet(a_requests) = {req} /\ CopiesIn(req, a_requests) = 1
           /\ a_pc = "done" =>
                 (a_result.ok <=>
                     (a_response # None /\ a_response[1].status \in 200..299))

\* The scenario of the specification: the session with upload id "abc123"
\* was aborted with a 2xx answer, and the DELETE went to ...?uploadId=abc123.
C15_Witness ==
    /\ a_pc = "done" /\ a_result.ok
    /\ a_state.upload_id = <<"a", "b", "c", "1", "2", "3">>
    /\ a_state.key_name = <<"d", "/", "k">>
    /\ a_config.custom_host = None
    /\ \E r \in BagToSet(a_requests) :
          /\ r.method = "DELETE"
          /\ r.url = <<"h", "t", "t", "p", "s", ":", "/", "/", "b", ".", "c", "n",
                       ".", "u", "/", "d", "%", "2", "F", "k", "?", "u", "p", "l",
                       "o", "a", "d", "I", "d", "=", "a", "b", "c", "1", "2", "3">>

\* C18: the header is "UCloud " + public_key + ":" + sign(private_key, S), with
\* S made of the method, the content-MD5, the content-type and the date, each
\* followed by a newline and an absent one counting as empty; then the
\* x-ufile-copy-source line and the x-ufile-copy-source-range line, each only
\* when its value is present; then "/" + bucket and "/" + key with no newline
\* between them.
C18_AuthorizationHeader ==
    s_pc = "done" =>
        LET p == s_param1
            Line(v) == v \o <<"\n">>
            Value(o) == IF o = None THEN <<>> ELSE o[1]
            Named(name, o) == IF o = None THEN <<>> ELSE Line(name \o o[1])
            S == Line(p.method)
                 \o Line(Value(p.content_md5))
                 \o Line(Value(p.content_type))
                 \o Line(Value(p.date))
                 \o Named(<<"x", "-", "u", "f", "i", "l", "e", "-",
                             "c", "o", "p", "y", "-", "s", "o", "u",
                             "r", "c", "e", ":">>,
                          p.x_ufile_copy_source)
                 \o Named(<<"x", "-", "u", "f", "i", "l", "e", "-",
                             "c", "o", "p", "y", "-", "s", "o", "u",
                             "r", "c", "e", "-", "r", "a", "n", "g",
                             "e", ":">>,
                          p.x_ufile_copy_source_range)
                 \o <<"/">> \o p.bucket \o <<"/">> \o p.key_name
        IN /\ Len(s_header1) = 7 + Len(s_config.public_key) + 2
           /\ SubSeq(s_header1, 1, 7) = <<"U", "C", "l", "o", "u", "d", " ">>
           /\ SubSeq(s_header1, 8, 7 + Len(s_config.public_key)) = s_config.public_key
           /\ s_header1[Len(s_header1) - 1] = ":"
           /\ s_header1[Len(s_header1)] = [key |-> s_config.private_key, data |-> S]

\* A PUT with a content type and a copy source but no MD5, no date and no
\* source range has been authorized; its signed string is spelled out.
C18_Witness ==
    /\ s_pc = "done"
    /\ s_param1 = [method |-> <<"P", "U", "T">>, bucket |-> <<"b">>,
                   key_name |-> <<"d", "/", "k">>, content_type |-> Some(<<"t">>),
                   content_md5 |-> None, date |-> None,
                   x_ufile_copy_source |-> Some(<<"s">>),
                   x_ufile_copy_source_range |-> None]
    /\ s_header1[Len(s_header1)].data =
          <<"P", "U", "T", "\n", "\n", "t", "\n", "\n", "x", "-",
            "u", "f", "i", "l", "e", "-", "c", "o", "p", "y", "-",
            "s", "o", "u", "r", "c", "e", ":", "s", "\n", "/", "b",
            "/", "d", "/", "k">>

\* The text a field of a signing request contributes: an absent value counts
\* as the empty string.
FieldText(p, f) ==
    IF f \in {"method", "bucket", "key_name"} THEN p[f] ELSE UnwrapOr(p[f], <<>>)

\* The signature part of a header value.
SignatureOf(header) == header[Len(header)]

\* C19: under one configuration, the same request gives the same header, and
\* two requests that differ in the text of exactly one of method, bucket, key,
\* content-type, content-MD5 or date, and in nothing else, give different
\* signatures.
C19_DeterministicAndSensitive ==
    s_pc = "done" =>
        /\ s_param1 = s_param2 => s_header1 = s_header2
        /\ \A f \in {"method", "bucket", "key_name", "content_type",
                      "content_md5", "date"} :
              (/\ FieldText(s_param1, f) # FieldText(s_param2, f)
               /\ \A g \in AuthFields \ {f} : s_param1[g] = s_param2[g])
              => SignatureOf(s_header1) # SignatureOf(s_header2)

\* Two requests that differ in their date only have been authorized.
C19_Witness ==
    /\ s_pc = "done"
    /\ DiffFields(s_param1, s_param2) = {"date"}
    /\ s_param1.date = None
    /\ SignatureOf(s_header1) # SignatureOf(s_header2)

\* C20 as stated: on a 2xx Finish answer the returned etag is the ETag header
\* when there is one, and the ETag field of the JSON body when there is none.
C20_EtagHeaderElseBody ==
    (f_pc = "done" /\ f_result.ok) =>
        LET resp == f_response[1]
        IN /\ resp.etag_header # None => f_result.etag = resp.etag_header[1]
           /\ (resp.etag_header = None /\ resp.body_etag # None) =>
                 f_result.etag = resp.body_etag[1]

\* C20 amended: on a 2xx Finish answer whose body decodes, the returned etag
\* is the ETag header when there is one and the empty string when there is
\* none; the ETag field of the JSON body is never read.
C20_EtagFromHeaderOnly ==
    (f_pc = "done" /\ f_result.ok) =>
        LET resp == f_response[1]
        IN /\ IsSuccess(resp.status) /\ resp.json
           /\ resp.etag_header # None => f_result.etag = resp.etag_header[1]
           /\ resp.etag_header = None => f_result.etag = <<>>

\* A Finish returned Ok on an answer without ETag header whose body carries
\* an ETag field.
C20_Witness ==
    /\ f_pc = "done" /\ f_result.ok
    /\ f_response[1].etag_header = None
    /\ f_response[1].body_etag = Some(<<"j">>)
    /\ f_result.etag = <<>>

\* C21: a part upload, a Finish or an Abort run on a session whose mime type
\* is None returns Err("mime type is unset.") and sends no request.
C21_MimeUnsetRejectedBeforeRequest ==
    [][(m_pc = "session" /\ m_state[1].mime_type = None /\ m_pc' # m_pc) =>
          /\ m_op' \in {"part", "finish", "abort"}
          /\ m_pc' = "done"
          /\ m_result' = ErrResult("mime", 0)
          /\ m_requests' = m_requests]_vars

\* A Finish on a caller-built session without mime type has been refused and
\* nothing was sent.
C21_Witness ==
    /\ m_pc = "done" /\ m_op = "finish"
    /\ m_state[1].mime_type = None
    /\ m_result = ErrResult("mime", 0)
    /\ m_requests = EmptyBag

\* C28: the session a successful Init returns has its mime type set to the
\* one the caller asked for, whatever the answer's body held, and no
\* operation run on that session fails with "mime type is unset.".
C28_InitBackfillsMime ==
    m_from_init =>
        /\ m_state # None
        /\ m_state[1].mime_type = Some(m_mime)
        /\ m_result # ErrResult("mime", 0)

\* Init answered with a body naming another mime type; the session carries
\* the requested one and an Abort on it went through.
C28_Witness ==
    /\ m_from_init /\ m_pc = "done" /\ m_op = "abort" /\ m_result.ok
    /\ m_init_response[1].mime_type = Some(<<"o">>)
    /\ m_mime = <<"t">>
    /\ m_state[1].mime_type = Some(<<"t">>)

\* C22 as stated: the string signed for a private url is the method, an empty
\* content-MD5 line, an empty content-type line, the expiry, then "/" + bucket
\* and "/" + key on two separate lines.
C22_PrivateUrlKeyOnOwnLine ==
    p_signature.ok =>
        LET c == p_call[1]
        IN p_signature.signature.data =
              c.method \o <<"\n", "\n", "\n">> \o c.expires \o <<"\n">>
              \o <<"/">> \o c.bucket_name \o <<"\n">> \o <<"/">> \o c.key_name

\* C22 amended: the string signed for a private url is the method, an empty
\* content-MD5 line, an empty content-type line, the expiry and a newline,
\* then "/" + bucket immediately followed by "/" + key, on one line.
C22_PrivateUrlSignedString ==
    p_signature.ok =>
        LET c == p_call[1]
        IN /\ p_signature.signature.key = p_config.private_key
           /\ p_signature.signature.data =
                 c.method \o <<"\n", "\n", "\n">> \o c.expires \o <<"\n">>
                 \o <<"/">> \o c.bucket_name \o <<"/">> \o c.key_name

\* A GET of key "d/k" in bucket "b" expiring at "60" has been signed.
C22_Witness ==
    /\ p_signature.ok
    /\ p_call[1] = [method |-> <<"G", "E", "T">>, bucket_name |-> <<"b">>,
                    key_name |-> <<"d", "/", "k">>, expires |-> <<"6", "0">>]
    /\ p_signature.signature.data =
          <<"G", "E", "T", "\n", "\n", "\n", "6", "0", "\n", "/",
            "b", "/", "d", "/", "k">>

\* A string of decimal digits, and one that denotes zero.
IsNumeric(str) == str # <<>> /\ \A i \in 1..Len(str) : str[i] \in Digits
IsZeroNumber(str) == IsNumeric(str) /\ \A i \in 1..Len(str) : str[i] = "0"

\* C23: authorization_private_url returns Err, and no signature, when the
\* bucket is empty, the key is empty or the expiry is zero; with a bucket, a
\* key and a numeric expiry other than zero it returns Ok(signature).
C23_PrivateUrlValidation ==
    p_pc \in {"signed", "done"} =>
        LET c == p_call[1]
            rejected == \/ c.bucket_name = <<>>
                        \/ c.key_name = <<>>
                        \/ IsZeroNumber(c.expires)
        IN /\ rejected =>
                 ~p_signature.ok /\ "signature" \notin DOMAIN p_signature
           /\ (~rejected /\ IsNumeric(c.expires)) =>
                 /\ p_signature.ok
                 /\ p_signature.signature =
                       [key |-> p_config.private_key, data |-> PrivateUrlSignData(c)]

\* A call with bucket, key and the expiry "00" was refused for its expiry.
C23_Witness ==
    /\ p_pc = "done" /\ p_req = None
    /\ p_call[1].bucket_name # <<>> /\ p_call[1].key_name # <<>>
    /\ p_call[1].expires = <<"0", "0">>
    /\ p_signature = ErrResult("zero", 0)

\* C29: GenPrivateUrlOperation.execute on a request whose expires is 0
\* returns Err and no url.
C29_ZeroExpiresRejected ==
    (p_pc = "done" /\ p_req # None /\ p_req[1].expires = 0) =>
        ~p_result.ok /\ "url" \notin DOMAIN p_result

\* C24: against a service that honours Range, what a range task fetches and
\* writes for a well-formed range is exactly [start, end), and the intervals
\* written by different tasks are pairwise disjoint.
C24_WritesDisjoint ==
    /\ \A t \in 1..Len(d_tasks) :
          (d_tasks[t].ok /\ d_tasks[t].start <= d_tasks[t].end) =>
              /\ d_tasks[t].obj = d_tasks[t].start
              /\ d_tasks[t].len = d_tasks[t].end - d_tasks[t].start
    /\ \A t, u \in 1..Len(d_tasks) :
          (t # u /\ d_tasks[t].ok /\ d_tasks[u].ok) =>
              \/ d_tasks[t].start + d_tasks[t].len <= d_tasks[u].start
              \/ d_tasks[u].start + d_tasks[u].len <= d_tasks[t].start

\* C25: under fair scheduling, with every request and file operation
\* completing, execute eventually returns, for every concurrency and length.
C25_DownloadReturns == <>(d_pc = "done")

\* Range tasks between their seek and the end of their write.
InSeekWrite == {t \in 1..Len(d_tasks) : d_tasks[t].pc \in {"seek", "write"}}

\* C26: at most one range task is between its seek and the end of its write,
\* that task is the one holding the file lock, and the lock is never held by
\* a task whose GET or body read is in flight.
C26_LockAroundSeekWriteOnly ==
    /\ Cardinality(InSeekWrite) <= 1
    /\ \A t \in InSeekWrite : d_lock = t
    /\ d_lock # 0 => d_tasks[d_lock].pc \in {"seek", "write"}
    /\ \A t \in 1..Len(d_tasks) :
          d_tasks[t].pc \in {"spawned", "get", "body", "lock"} => d_lock # t

\* One task is writing under the lock while another waits for the lock and
\* a third has its GET in flight.
C26_Witness ==
    \E t, u, v \in 1..Len(d_tasks) :
        /\ d_tasks[t].pc = "write" /\ d_lock = t
        /\ d_tasks[u].pc = "lock"
        /\ d_tasks[v].pc = "get"

\* C27: when parts (ranges) have failed in a run that has returned, the error
\* returned is the one of the failed part (range) with the lowest index.
C27_LowestIndexErrorReturned ==
    /\ (pc = "done" /\ FailedTasks # {}) =>
          \E m \in FailedTasks :
              /\ \A u \in FailedTasks : m <= u
              /\ result = ErrResult(tasks[m].err, tasks[m].index)
    /\ LET failed == {t \in 1..Len(d_tasks) :
                          d_tasks[t].pc = "done" /\ ~d_tasks[t].ok}
       IN (d_pc = "done" /\ failed # {}) =>
              \E m \in failed :
                  /\ \A u \in failed : m <= u
                  /\ d_result = ErrResult(d_tasks[m].err, m - 1)

\* An upload in which two parts failed in different ways has returned the
\* error of the lower one.
C27_Witness ==
    /\ pc = "done" /\ ~result.ok
    /\ \E t, u \in FailedTasks :
          /\ t < u /\ tasks[t].err # tasks[u].err
          /\ \A w \in FailedTasks : t <= w
          /\ result.err = tasks[t].err

\* C30: every part result handed to Finish has a non-empty ETag, and a part
\* upload resolves Ok only with an ETag.
C30_PartEtagsNonEmpty ==
    /\ \A t \in 1..Len(tasks) : tasks[t].ok => tasks[t].etag # <<>>
    /\ \A i \in 1..Len(parts_state) : parts_state[i].etag # <<>>

\* The error the caller would get if the envelope were passed on: the
\* service's code and message.
ServiceError(base) ==
    [ok |-> FALSE, err |-> "service", at |-> 0,
     ret_code |-> base.ret_code, message |-> base.message]

\* C31: after a non-2xx answer to Finish or Abort, a body that is a
\* well-formed error envelope makes the returned error carry the envelope's
\* code and message, and only a body that is not one gives the generic
\* failure.
C31_ServiceErrorCarried ==
    /\ (f_pc = "done" /\ f_response # None /\ ~IsSuccess(f_response[1].status)) =>
          IF f_response[1].base # None
          THEN f_result = ServiceError(f_response[1].base[1])
          ELSE ~f_result.ok /\ f_result.err \in {"status", "json"}
    /\ (a_pc = "done" /\ a_response # None /\ ~IsSuccess(a_response[1].status)) =>
          IF a_response[1].base # None
          THEN a_result = ServiceError(a_response[1].base[1])
          ELSE ~a_result.ok /\ a_result.err \in {"status", "json"}

\* C32: for every content_length the ranges DownloadFileOperation.execute
\* has split the object into are the ranges DownloadFileApi.execute computes,
\* so both send the same Range requests.
C32_SameSplitAsLegacy ==
    d_pc \in {"spawning", "joining"} =>
        /\ d_ranges = LegacyRanges(content_length)
        /\ \A r \in BagToSet(d_requests) :
              \E k \in 1..LegacyChunkCount(content_length) :
                  r = RangeRequest(LegacyRanges(content_length)[k])

\* C33: when the destination exists and overwrite is false, execute returns
\* Err, the existing file is never created anew, truncated or written, no
\* range task is spawned and no range GET is sent.
C33_ExistingFileUntouched ==
    (d_pc # "idle" /\ d_exists /\ ~d_overwrite) =>
        /\ d_file = "old"
        /\ d_written = {}
        /\ d_tasks = <<>>
        /\ d_requests = EmptyBag
        /\ d_pc \in {"start", "done"}
        /\ d_pc = "done" => ~d_result.ok

\* execute has returned the refusal for an existing destination.
C33_Witness ==
    /\ d_pc = "done" /\ d_exists /\ ~d_overwrite
    /\ d_result = ErrResult("exists", 0)
    /\ d_file = "old"

\* C34: with a non-empty security token configured on the upload, every
\* request it sends (Init, each part PUT, Finish) carries the token in its
\* SecurityToken header.
C34_EveryRequestCarriesToken ==
    (security_token # None /\ security_token[1] # <<>>) =>
        \A r \in BagToSet(requests) : r.token = Some(security_token[1])

DecimalDigits == {"0", "1", "2", "3", "4", "5", "6", "7", "8", "9"}

\* C35: every request of the multipart protocol carries a Date header of
\* exactly 14 decimal digits (YYYYMMDDhhmmss).
C35_DateFourteenDigits ==
    \A r \in BagToSet(m_requests) :
        /\ Len(r.headers.date) = 14
        /\ \A k \in 1..Len(r.headers.date) : r.headers.date[k] \in DecimalDigits

\* C38: for every request sent, the method, Content-Type, Content-MD5 and
\* Date that were signed are the request's method and header values, and the
\* bucket and key signed are the ones its url was built from.
C38_SignedIsSent ==
    \A r \in BagToSet(m_requests) :
        /\ r.signed.method = r.method
        /\ r.signed.content_type = Some(r.headers.content_type)
        /\ r.signed.content_md5 = r.headers.content_md5
        /\ r.signed.date = Some(r.headers.date)
        /\ r.signed.bucket = r.url_bucket
        /\ r.signed.key_name = r.url_key

\* An Init request and a part request with a Content-MD5 have been sent in
\* one session.
C38_Witness ==
    /\ \E r \in BagToSet(m_requests) : r.op = "init"
    /\ \E r \in BagToSet(m_requests) :
          r.op = "part" /\ r.headers.content_md5 # None

\* C36: execute never panics: whatever the successful Init response and the
\* file, BlkSize = 0 and an empty file included, it goes on to return.
C36_NoPanic == pc # "panicked"

\* The two signing requests agree on everything but bucket and key, and name
\* different objects.
SameButObject ==
    /\ \A f \in AuthFields \ {"bucket", "key_name"} : s_param1[f] = s_param2[f]
    /\ <<s_param1.bucket, s_param1.key_name>> # <<s_param2.bucket, s_param2.key_name>>

HasSlash(str) == \E k \in 1..Len(str) : str[k] = "/"

\* C37 as stated: two signing requests that differ only in their (bucket,
\* key) pair get different canonical strings and different signatures.
C37_ObjectsSignedApart ==
    (s_pc = "done" /\ SameButObject) =>
        SignatureOf(s_header1) # SignatureOf(s_header2)

\* C37, amended: the same, for bucket names that contain no "/"; and the
\* string signed for a private url tells such objects apart as well.
C37_ObjectsSignedApartWithoutSlash ==
    /\ (/\ s_pc = "done" /\ SameButObject
        /\ ~HasSlash(s_param1.bucket) /\ ~HasSlash(s_param2.bucket)) =>
           SignatureOf(s_header1) # SignatureOf(s_header2)
    /\ s_pc = "done" =>
          \A c \in PrivateUrlCalls :
              LET c1 == [c EXCEPT !.bucket_name = s_param1.bucket,
                                  !.key_name = s_param1.key_name]
                  c2 == [c EXCEPT !.bucket_name = s_param2.bucket,
                                  !.key_name = s_param2.key_name]
              IN (/\ <<s_param1.bucket, s_param1.key_name>>
                       # <<s_param2.bucket, s_param2.key_name>>
                  /\ ~HasSlash(s_param1.bucket) /\ ~HasSlash(s_param2.bucket))
                 => PrivateUrlSignData(c1) # PrivateUrlSignData(c2)

\* Two requests for objects in different slash-free buckets, under different
\* keys, have been authorized.
C37_Witness ==
    /\ s_pc = "done" /\ SameButObject
    /\ ~HasSlash(s_param1.bucket) /\ ~HasSlash(s_param2.bucket)
    /\ s_param1.bucket # s_param2.bucket
    /\ s_param1.key_name # s_param2.key_name
    /\ SignatureOf(s_header1) # SignatureOf(s_header2)

\* C39: the pool never holds more idle objects than its max_size, and a
\* get() returns an idle object when it found one and a fresh one otherwise.
C39_IdleAtMostMaxSize ==
    /\ Len(o_objects) <= o_max_size
    /\ o_last # None => (o_last[1].fresh <=> o_last[1].idle = 0)

====
